---------------------------- MODULE Spec2Model ----------------------------
(***************************************************************************)
(* Verification model of dm-std.                                           *)
(*                                                                         *)
(* CmdLine (src/src/cmd_line/index.ts) and the Obj path helpers it uses    *)
(* (src/unnamed/part_002) are modelled as a state machine: option          *)
(* descriptors are compiled once by CmdLine.Options.parse, then any number *)
(* of CmdLine.parse calls run against the compiled mapping, one loop       *)
(* iteration per step.  stringToArgv, the tokenizer CmdLine.parse applies  *)
(* to a raw line, has its own specification (TokenizerSpec), one           *)
(* character of the line per step.                                         *)
(*                                                                         *)
(* JavaScript strings are sequences of one-character strings, so that      *)
(* indexOf, substring, split, trim, toLowerCase, Number, parseInt,         *)
(* parseFloat and JSON.parse are computed character by character.          *)
(***************************************************************************)
EXTENDS Integers, Sequences, FiniteSets, TLC

(***************************************************************************)
(* Bounds of the model.                                                    *)
(***************************************************************************)
\* longest token list handed to one CmdLine.parse call
MaxArgs == 3
\* number of CmdLine.parse calls made on one compiled option set
MaxCalls == 2
\* longest raw argument line handed to stringToArgv
MaxChars == 5
\* random numbers drawn in one run
MaxDraws == 4
\* Log.Group.create calls and Log.push calls after the module is loaded
MaxCreates == 3
MaxPushes == 2
\* calls into one file system, and the deepest path a copy goes down to
MaxOps == 3
MaxDepth == 4

(***************************************************************************)
(* JavaScript values.                                                      *)
(*   number  : m * 10^(-sc), normalised (no trailing zero in the fraction) *)
(*   object  : own keys in insertion order with their values               *)
(*   array   : its elements, and the named properties set on it            *)
(*   ref     : a reference to an object that CompiledOptions owns (or to a *)
(*             built-in); such objects live in the variable heap, so that  *)
(*             a write through the reference is seen by every holder.      *)
(* Objects created during a parse call (the result, intermediate           *)
(* containers, parsedValues, JSON.parse output) have exactly one holder    *)
(* and are kept by value inside their holder.                              *)
(***************************************************************************)
Undefined == [t |-> "undefined"]
Null == [t |-> "null"]
Bool(b) == [t |-> "boolean", b |-> b]
Num(m, sc) == [t |-> "number", m |-> m, sc |-> sc]
Str(s) == [t |-> "string", s |-> s]
Ref(id) == [t |-> "ref", id |-> id]
ObjV(keys, vals) == [t |-> "object", keys |-> keys, vals |-> vals]
ArrV(elems) == [t |-> "array", elems |-> elems, keys |-> <<>>, vals |-> <<>>]
FnV(name) == [t |-> "function", name |-> name, keys |-> <<>>, vals |-> <<>>]
\* a ValueType name held in an option's type array
TyV(n) == [t |-> "string", ty |-> n]
EmptyObj == ObjV(<<>>, <<>>)
EmptyArr == ArrV(<<>>)

(***************************************************************************)
(* String primitives.                                                      *)
(***************************************************************************)
Digits == <<"0", "1", "2", "3", "4", "5", "6", "7", "8", "9">>

IsDigit(c) == \E d \in 1..10 : Digits[d] = c

DigitVal(c) == (CHOOSE d \in 1..10 : Digits[d] = c) - 1

\* String.prototype.indexOf(c) for a one-character needle: 0-based, -1 if absent
IndexOf(s, c) ==
  IF \E k \in 1..Len(s) : s[k] = c
  THEN (CHOOSE k \in 1..Len(s) : s[k] = c /\ \A j \in 1..(k - 1) : s[j] # c) - 1
  ELSE -1

\* String.prototype.substring(a, b), 0-based, b exclusive
Substring(s, a, b) == IF b <= a THEN <<>> ELSE SubSeq(s, a + 1, b)

\* String.prototype.split(c) for a one-character separator
RECURSIVE Split(_, _)
Split(s, c) ==
  LET k == IndexOf(s, c)
  IN IF k = -1 THEN <<s>>
     ELSE <<Substring(s, 0, k)>> \o Split(Substring(s, k + 1, Len(s)), c)

\* Array.prototype.join(c) over strings
RECURSIVE Join(_, _)
Join(parts, c) ==
  IF Len(parts) = 0 THEN <<>>
  ELSE IF Len(parts) = 1 THEN parts[1]
  ELSE parts[1] \o <<c>> \o Join(Tail(parts), c)

\* String.prototype.trim() (the space is the only white space of the alphabet)
RECURSIVE TrimStart(_)
TrimStart(s) == IF Len(s) > 0 /\ s[1] = " " THEN TrimStart(Tail(s)) ELSE s

RECURSIVE TrimEnd(_)
TrimEnd(s) ==
  IF Len(s) > 0 /\ s[Len(s)] = " " THEN TrimEnd(SubSeq(s, 1, Len(s) - 1)) ELSE s

Trim(s) == TrimEnd(TrimStart(s))

\* String.prototype.toLowerCase() on the letters of the alphabet
UpperCase == <<"T", "R", "U", "E", "Y", "S", "N", "O", "F", "A", "L">>
LowerCase == <<"t", "r", "u", "e", "y", "s", "n", "o", "f", "a", "l">>

LowerChar(c) ==
  IF \E k \in 1..Len(UpperCase) : UpperCase[k] = c
  THEN LowerCase[CHOOSE k \in 1..Len(UpperCase) : UpperCase[k] = c]
  ELSE c

ToLowerCase(s) == [k \in 1..Len(s) |-> LowerChar(s[k])]

(***************************************************************************)
(* Numeric conversions: Number(s), parseFloat(s), parseInt(s, 10).         *)
(* The alphabet has decimal literals only (sign, digits, '.', exponent);   *)
(* hexadecimal, octal and binary literals and "Infinity" are outside it.   *)
(***************************************************************************)
RECURSIVE DigitRun(_, _)
\* number of consecutive digits of s from the 1-based position p
DigitRun(s, p) ==
  IF p <= Len(s) /\ IsDigit(s[p]) THEN 1 + DigitRun(s, p + 1) ELSE 0

RECURSIVE NatOf(_, _, _)
\* value of the n digits of s from the 1-based position p
NatOf(s, p, n) ==
  IF n = 0 THEN 0 ELSE NatOf(s, p, n - 1) * 10 + DigitVal(s[p + n - 1])

RECURSIVE Pow10(_)
Pow10(n) == IF n <= 0 THEN 1 ELSE 10 * Pow10(n - 1)

RECURSIVE Normalise(_, _)
Normalise(m, sc) ==
  IF sc < 0 THEN Normalise(m * Pow10(-sc), 0)
  ELSE IF m = 0 THEN Num(0, 0)
  ELSE IF sc > 0 /\ m % 10 = 0 THEN Normalise(m \div 10, sc - 1)
  ELSE Num(m, sc)

\* The longest prefix of s that is a StrDecimalLiteral: [ok, value, end],
\* end the 1-based position after the prefix.  The literal is scanned in
\* four steps: sign, integer digits, fraction, exponent.
DecimalValue(s, p1, ni, p3, nf, p6, ne, eneg) ==
  LET mant == NatOf(s, p1, ni) * Pow10(nf) + NatOf(s, p3, nf)
      ex == NatOf(s, p6, ne)
      neg == s[1] = "-"
  IN [ok |-> TRUE,
      value |-> Normalise(IF neg THEN -mant ELSE mant,
                          nf - (IF eneg THEN -ex ELSE ex)),
      end |-> IF ne >= 1 THEN p6 + ne ELSE p3 + nf]

DecimalExponent(s, p1, ni, p3, nf) ==
  LET p4 == p3 + nf
      hasE == p4 <= Len(s) /\ s[p4] \in {"e", "E"}
      esigned == hasE /\ p4 + 1 <= Len(s) /\ s[p4 + 1] \in {"+", "-"}
      p6 == IF esigned THEN p4 + 2 ELSE p4 + 1
  IN DecimalValue(s, p1, ni, p3, nf, p6,
                  IF hasE THEN DigitRun(s, p6) ELSE 0,
                  esigned /\ s[p4 + 1] = "-")

DecimalFraction(s, p1, ni) ==
  LET hasDot == p1 + ni <= Len(s) /\ s[p1 + ni] = "."
      p3 == IF hasDot THEN p1 + ni + 1 ELSE p1 + ni
  IN IF ni + (IF hasDot THEN DigitRun(s, p3) ELSE 0) = 0
     THEN [ok |-> FALSE, value |-> Undefined, end |-> 1]
     ELSE DecimalExponent(s, p1, ni, p3, IF hasDot THEN DigitRun(s, p3) ELSE 0)

DecimalInteger(s, p1) == DecimalFraction(s, p1, DigitRun(s, p1))

DecimalPrefix(s) ==
  DecimalInteger(s, IF Len(s) >= 1 /\ s[1] \in {"+", "-"} THEN 2 ELSE 1)

\* the not-a-number value
NaN == [t |-> "nan"]

\* the value of a string that is one literal as a whole
WholeLiteral(u, r) == IF r.ok /\ r.end = Len(u) + 1 THEN r.value ELSE NaN

NumberOfTrimmed(u) ==
  IF Len(u) = 0 THEN Num(0, 0) ELSE WholeLiteral(u, DecimalPrefix(u))

\* Number(s): the whole trimmed string must be one literal; "" is 0
NumberOf(s) == NumberOfTrimmed(Trim(s))

PrefixValue(r) == IF r.ok THEN r.value ELSE NaN

\* parseFloat(s): the longest literal prefix after leading white space
ParseFloat(s) == PrefixValue(DecimalPrefix(TrimStart(s)))

IntegerValue(u, p1, ni) ==
  IF ni = 0 THEN NaN
  ELSE Num(IF u[1] = "-" THEN -NatOf(u, p1, ni) ELSE NatOf(u, p1, ni), 0)

IntegerPrefix(u, p1) == IntegerValue(u, p1, DigitRun(u, p1))

IntegerOfTrimmed(u) ==
  IntegerPrefix(u, IF Len(u) >= 1 /\ u[1] \in {"+", "-"} THEN 2 ELSE 1)

\* parseInt(s, 10): sign and the leading run of digits after leading white space
ParseInt(s) == IntegerOfTrimmed(TrimStart(s))

(***************************************************************************)
(* JSON.parse on the JSON grammar without string escapes: numbers,         *)
(* strings, true, false, null, arrays and objects, spaces between tokens.  *)
(* Each parser returns [ok, value, end], end the position after the value. *)
(***************************************************************************)
JFail == [ok |-> FALSE, value |-> Undefined, end |-> 0]

RECURSIVE JSkip(_, _)
JSkip(s, p) == IF p <= Len(s) /\ s[p] = " " THEN JSkip(s, p + 1) ELSE p

\* s has the characters of word from position p on
HasWord(s, p, word) ==
  /\ p + Len(word) - 1 <= Len(s)
  /\ \A k \in 1..Len(word) : s[p + k - 1] = word[k]

\* a JSON number is a decimal literal without '+', without a leading zero
\* before another digit, and with a digit on both sides of a '.'
JNumberShape(sub, p, r) ==
  LET d == IF sub[1] = "-" THEN 2 ELSE 1
      text == SubSeq(sub, 1, r.end - 1)
  IN IF /\ r.ok
        /\ sub[1] # "+"
        /\ d <= Len(text) /\ IsDigit(text[d])
        /\ ~(text[d] = "0" /\ d + 1 <= Len(text) /\ IsDigit(text[d + 1]))
        /\ \A k \in 1..Len(text) :
             text[k] = "." => (k + 1 <= Len(text) /\ IsDigit(text[k + 1]))
     THEN [ok |-> TRUE, value |-> r.value, end |-> p + r.end - 1]
     ELSE JFail

JNumberAt(sub, p) == JNumberShape(sub, p, DecimalPrefix(sub))

JNumber(s, p) == JNumberAt(SubSeq(s, p, Len(s)), p)

\* a string without escapes: up to the next double quote
JStringBody(rest, p, k) ==
  IF k = -1 \/ IndexOf(Substring(rest, 0, k), "\\") # -1 THEN JFail
  ELSE [ok |-> TRUE, value |-> Str(Substring(rest, 0, k)), end |-> p + k + 2]

JStringRest(rest, p) == JStringBody(rest, p, IndexOf(rest, "\""))

JString(s, p) == JStringRest(SubSeq(s, p + 1, Len(s)), p)

\* the own keys and values of an object after the assignment obj[k] = v
PutKey(keys, vals, k, v) ==
  IF \E j \in 1..Len(keys) : keys[j] = k
  THEN [keys |-> keys,
        vals |-> [j \in 1..Len(vals) |-> IF keys[j] = k THEN v ELSE vals[j]]]
  ELSE [keys |-> Append(keys, k), vals |-> Append(vals, v)]

RECURSIVE JElems(_, _, _)
RECURSIVE JMembers(_, _, _, _)

JValueAt(s, q) ==
  IF q > Len(s) THEN JFail
  ELSE IF s[q] = "["
    THEN (IF JSkip(s, q + 1) <= Len(s) /\ s[JSkip(s, q + 1)] = "]"
          THEN [ok |-> TRUE, value |-> EmptyArr, end |-> JSkip(s, q + 1) + 1]
          ELSE JElems(s, JSkip(s, q + 1), <<>>))
  ELSE IF s[q] = "{"
    THEN (IF JSkip(s, q + 1) <= Len(s) /\ s[JSkip(s, q + 1)] = "}"
          THEN [ok |-> TRUE, value |-> EmptyObj, end |-> JSkip(s, q + 1) + 1]
          ELSE JMembers(s, JSkip(s, q + 1), <<>>, <<>>))
  ELSE IF s[q] = "\"" THEN JString(s, q)
  ELSE IF HasWord(s, q, <<"t", "r", "u", "e">>)
    THEN [ok |-> TRUE, value |-> Bool(TRUE), end |-> q + 4]
  ELSE IF HasWord(s, q, <<"f", "a", "l", "s", "e">>)
    THEN [ok |-> TRUE, value |-> Bool(FALSE), end |-> q + 5]
  ELSE IF HasWord(s, q, <<"n", "u", "l", "l">>)
    THEN [ok |-> TRUE, value |-> Null, end |-> q + 4]
  ELSE JNumber(s, q)

JValue(s, p) == JValueAt(s, JSkip(s, p))

\* after the element v: a comma and more elements, or the closing bracket
JElemsAfter(s, acc, v, r) ==
  IF ~v.ok \/ r > Len(s) THEN JFail
  ELSE IF s[r] = "," THEN JElems(s, r + 1, Append(acc, v.value))
  ELSE IF s[r] = "]"
    THEN [ok |-> TRUE, value |-> ArrV(Append(acc, v.value)), end |-> r + 1]
  ELSE JFail

JElemsNext(s, acc, v) == JElemsAfter(s, acc, v, IF v.ok THEN JSkip(s, v.end) ELSE 0)

JElems(s, p, acc) == JElemsNext(s, acc, JValue(s, p))

\* after the member k: v
JMembersAfter(s, kv, v, r) ==
  IF ~v.ok \/ r > Len(s) THEN JFail
  ELSE IF s[r] = "," THEN JMembers(s, r + 1, kv.keys, kv.vals)
  ELSE IF s[r] = "}"
    THEN [ok |-> TRUE, value |-> ObjV(kv.keys, kv.vals), end |-> r + 1]
  ELSE JFail

JMembersValue(s, keys, vals, k, v) ==
  JMembersAfter(s, IF v.ok THEN PutKey(keys, vals, k.value.s, v.value)
                   ELSE [keys |-> keys, vals |-> vals],
                v, IF v.ok THEN JSkip(s, v.end) ELSE 0)

JMembersColon(s, keys, vals, k, c) ==
  JMembersValue(s, keys, vals, k,
                IF k.ok /\ c <= Len(s) /\ s[c] = ":" THEN JValue(s, c + 1) ELSE JFail)

JMembersKey(s, keys, vals, k) ==
  JMembersColon(s, keys, vals, k, IF k.ok THEN JSkip(s, k.end) ELSE 0)

JMembersAt(s, q, keys, vals) ==
  JMembersKey(s, keys, vals, IF q <= Len(s) /\ s[q] = "\"" THEN JString(s, q) ELSE JFail)

JMembers(s, p, keys, vals) == JMembersAt(s, JSkip(s, p), keys, vals)

JWhole(s, v) == IF v.ok /\ JSkip(s, v.end) = Len(s) + 1 THEN v ELSE JFail

\* JSON.parse(s): ok is FALSE where JSON.parse throws a SyntaxError
JSONParse(s) == JWhole(s, JValue(s, 1))

(***************************************************************************)
(* Value Coercion Engine: parseValue.                                      *)
(***************************************************************************)
isNumericString(s) ==
  IF Trim(s) = <<>> THEN FALSE
  ELSE NumberOf(s).t = "number"

Rejected(type) == [ok |-> FALSE, value |-> Undefined, type |-> type]

Accepted(v, type) == [ok |-> TRUE, value |-> v, type |-> type]

\* lines 160-164
ParseAsBoolean(lowerVal) ==
  IF lowerVal \in {<<"t", "r", "u", "e">>, <<"1">>, <<"y", "e", "s">>}
  THEN Accepted(Bool(TRUE), "boolean")
  ELSE IF lowerVal \in {<<"f", "a", "l", "s", "e">>, <<"0">>, <<"n", "o">>}
  THEN Accepted(Bool(FALSE), "boolean")
  ELSE Rejected("boolean")

\* lines 167-169: a SyntaxError is caught and the next type is tried
ParseAsJson(r) == IF r.ok THEN Accepted(r.value, "json") ELSE Rejected("json")

\* a loop over allowedTypes that ends after its first iteration
FirstOnly(value, allowedTypes, r) == r

\* one iteration of the loop over allowedTypes: [ok, value, type]
ParseAs(value, type) ==
  CASE type = "float" ->
         IF isNumericString(value) THEN Accepted(ParseFloat(value), type)
         ELSE Rejected(type)
    [] type = "integer" ->
         IF isNumericString(value) /\ IndexOf(value, ".") = -1
         THEN Accepted(ParseInt(value), type) ELSE Rejected(type)
    [] type = "boolean" -> ParseAsBoolean(ToLowerCase(value))
    [] type = "json" ->
         IF Len(value) >= 1 /\ \/ (value[1] = "{" /\ value[Len(value)] = "}")
                               \/ (value[1] = "[" /\ value[Len(value)] = "]")
         THEN ParseAsJson(JSONParse(value)) ELSE Rejected(type)
    [] type = "string" -> Accepted(Str(value), type)
    [] OTHER -> Rejected(type)

RECURSIVE parseValue(_, _)

FirstAccepted(value, allowedTypes, r) ==
  IF r.ok THEN r ELSE parseValue(value, Tail(allowedTypes))

\* allowedTypes: the ValueType names in the order they are tried
parseValue(value, allowedTypes) ==
  IF allowedTypes = <<>> THEN Rejected("?")
  ELSE FirstAccepted(value, allowedTypes, ParseAs(value, Head(allowedTypes)))

(***************************************************************************)
(* Objects and properties.                                                 *)
(* heap is a sequence of objects, a reference is an index into it.         *)
(* heap[1] is the built-in Object constructor: every plain object inherits *)
(* the property "constructor" from Object.prototype, and it is the only    *)
(* inherited property whose name is in the alphabet of the model.          *)
(***************************************************************************)
ObjectCtor == Ref(1)

K_constructor == <<"c", "o", "n", "s", "t", "r", "u", "c", "t", "o", "r">>
K_length == <<"l", "e", "n", "g", "t", "h">>
K_triggers == <<"t", "r", "i", "g", "g", "e", "r", "s">>
K_type == <<"t", "y", "p", "e">>
K_isArray == <<"i", "s", "A", "r", "r", "a", "y">>
K_target == <<"t", "a", "r", "g", "e", "t">>
K_map == <<"m", "a", "p">>
K_default == <<"d", "e", "f", "a", "u", "l", "t">>
K_value == <<"v", "a", "l", "u", "e">>
K_description == <<"d", "e", "s", "c">>

\* Object.prototype[k]
ProtoProp(k) == IF k = K_constructor THEN ObjectCtor ELSE Undefined

\* the object a value denotes
Node(h, v) == IF v.t = "ref" THEN h[v.id] ELSE v

HasOwn(o, k) == \E j \in 1..Len(o.keys) : o.keys[j] = k

OwnProp(o, k) == o.vals[CHOOSE j \in 1..Len(o.keys) : o.keys[j] = k]

\* /^\d+$/.test(k)
isNumeric(k) == Len(k) >= 1 /\ \A j \in 1..Len(k) : IsDigit(k[j])

\* k is the canonical form of an array index
IsIndexKey(k) == isNumeric(k) /\ (Len(k) = 1 \/ k[1] # "0")

\* the JavaScript expression v[k]
GetProp(h, v, k) ==
  LET o == Node(h, v)
  IN CASE o.t = "object" -> IF HasOwn(o, k) THEN OwnProp(o, k) ELSE ProtoProp(k)
       [] o.t = "function" -> IF HasOwn(o, k) THEN OwnProp(o, k) ELSE Undefined
       [] o.t = "array" ->
            IF IsIndexKey(k)
            THEN (IF NatOf(k, 1, Len(k)) < Len(o.elems)
                  THEN o.elems[NatOf(k, 1, Len(k)) + 1] ELSE Undefined)
            ELSE IF k = K_length THEN Num(Len(o.elems), 0)
            ELSE IF HasOwn(o, k) THEN OwnProp(o, k) ELSE Undefined
       [] o.t = "string" /\ "s" \in DOMAIN o ->
            IF IsIndexKey(k)
            THEN (IF NatOf(k, 1, Len(k)) < Len(o.s)
                  THEN Str(<<o.s[NatOf(k, 1, Len(k)) + 1]>>) ELSE Undefined)
            ELSE IF k = K_length THEN Num(Len(o.s), 0)
            ELSE Undefined
       [] OTHER -> Undefined

\* o[k] = val on the object o itself: [node, threw].  The module is strict
\* code (an ES module), so creating a property on a primitive value throws
\* a TypeError.
AssignOwn(o, k, val) ==
  CASE o.t \in {"object", "function"} ->
         LET kv == PutKey(o.keys, o.vals, k, val)
         IN [node |-> [o EXCEPT !.keys = kv.keys, !.vals = kv.vals], threw |-> FALSE]
    [] o.t = "array" ->
         IF IsIndexKey(k)
         THEN LET idx == NatOf(k, 1, Len(k))
                  n == Len(o.elems)
                  grown == [j \in 1..(idx + 1) |->
                              IF j <= n THEN o.elems[j] ELSE Undefined]
              IN [node |-> [o EXCEPT !.elems =
                              IF idx < n THEN [o.elems EXCEPT ![idx + 1] = val]
                              ELSE [grown EXCEPT ![idx + 1] = val]],
                  threw |-> FALSE]
         ELSE LET kv == PutKey(o.keys, o.vals, k, val)
              IN [node |-> [o EXCEPT !.keys = kv.keys, !.vals = kv.vals],
                  threw |-> FALSE]
    [] OTHER -> [node |-> o, threw |-> TRUE]

Stored(h, v, r) == [h |-> [h EXCEPT ![v.id] = r.node], node |-> v, threw |-> r.threw]

Held(h, r) == [h |-> h, node |-> r.node, threw |-> r.threw]

\* the statement v[k] = val: [h, node, threw], node the holder afterwards
AssignProp(h, v, k, val) ==
  IF v.t = "ref" THEN Stored(h, v, AssignOwn(h[v.id], k, val))
  ELSE Held(h, AssignOwn(v, k, val))

\* a new object on the heap: [h, v]
Alloc(h, o) == [h |-> Append(h, o), v |-> Ref(Len(h) + 1)]

(***************************************************************************)
(* Obj.clone, Obj.get, Obj.set.                                            *)
(***************************************************************************)
\* no copy: the object itself
SameObject(h, obj) == [h |-> h, v |-> obj]

RECURSIVE clone(_, _)
RECURSIVE CloneAll(_, _, _)

CloneNext(vals, acc, c) == CloneAll(c.h, vals, Append(acc, c.v))

\* clone of every value of vals, left to right: [h, vals]
CloneAll(h, vals, acc) ==
  IF Len(acc) = Len(vals) THEN [h |-> h, vals |-> acc]
  ELSE CloneNext(vals, acc, clone(h, vals[Len(acc) + 1]))

\* lines 21-35: the copy of o with the cloned members c
Cloned(o, c) ==
  Alloc(c.h, IF o.t = "array" THEN ArrV(c.vals) ELSE ObjV(o.keys, c.vals))

\* Obj.clone(obj): [h, v]
clone(h, obj) ==
  IF obj.t # "ref" \/ h[obj.id].t = "function" THEN [h |-> h, v |-> obj]
  ELSE Cloned(h[obj.id],
              CloneAll(h, IF h[obj.id].t = "array" THEN h[obj.id].elems
                          ELSE h[obj.id].vals, <<>>))

RECURSIVE ReplaceBrackets(_)
\* path.replace(/\[(\d+)\]/g, '.$1')
ReplaceBrackets(s) ==
  IF s = <<>> THEN <<>>
  ELSE LET n == DigitRun(s, 2)
       IN IF s[1] = "[" /\ n >= 1 /\ n + 2 <= Len(s) /\ s[n + 2] = "]"
          THEN <<".">> \o SubSeq(s, 2, n + 1) \o ReplaceBrackets(SubSeq(s, n + 3, Len(s)))
          ELSE <<s[1]>> \o ReplaceBrackets(Tail(s))

PathArray(path) == Split(ReplaceBrackets(path), ".")

RECURSIVE GetAt(_, _, _, _)
\* lines 42-50
GetAt(h, current, pathArray, i) ==
  IF i > Len(pathArray) THEN current
  ELSE IF current.t \in {"null", "undefined"} THEN Undefined
  ELSE IF GetProp(h, current, pathArray[i]).t = "undefined" THEN Undefined
  ELSE GetAt(h, GetProp(h, current, pathArray[i]), pathArray, i + 1)

\* Obj.get(obj, path)
get(h, obj, path) == GetAt(h, obj, PathArray(path), 1)

RECURSIVE SetAt(_, _, _, _, _)

\* the holder a after the walk r below its member child
SetBack(pathArray, i, a, child, r) ==
  IF r.threw THEN [h |-> r.h, node |-> a.node, threw |-> TRUE]
  ELSE IF child.t = "ref" THEN [h |-> r.h, node |-> a.node, threw |-> FALSE]
  ELSE AssignProp(r.h, a.node, pathArray[i], r.node)

\* line 64: current = current[key]
SetChild(pathArray, i, value, a, child) ==
  SetBack(pathArray, i, a, child, SetAt(a.h, child, pathArray, i + 1, value))

SetCreated(pathArray, i, value, a, fresh) ==
  IF a.threw THEN a ELSE SetChild(pathArray, i, value, a, fresh)

\* lines 61-63: a missing member becomes [] or {}
SetBelow(h, current, pathArray, i, value, cur, fresh) ==
  IF cur.t \in {"undefined", "null"}
  THEN SetCreated(pathArray, i, value, AssignProp(h, current, pathArray[i], fresh), fresh)
  ELSE SetChild(pathArray, i, value, [h |-> h, node |-> current, threw |-> FALSE], cur)

\* the walk of Obj.set from segment i on: [h, node, threw], node the value
\* of current after the writes below it
SetAt(h, current, pathArray, i, value) ==
  IF i = Len(pathArray) THEN AssignProp(h, current, pathArray[i], value)
  ELSE SetBelow(h, current, pathArray, i, value, GetProp(h, current, pathArray[i]),
                IF isNumeric(pathArray[i + 1]) THEN EmptyArr ELSE EmptyObj)

\* Obj.set(obj, path, value): [h, node, threw]
set(h, obj, path, value) == SetAt(h, obj, PathArray(path), 1, value)

(***************************************************************************)
(* CmdLine.Options.parse: the Option Compiler.                             *)
(***************************************************************************)
VALUE_TYPE_ORDER == <<"none", "float", "integer", "boolean", "json", "string">>

\* VALUE_TYPE_ORDER.indexOf(n)
OrderIndex(n) ==
  IF \E k \in 1..Len(VALUE_TYPE_ORDER) : VALUE_TYPE_ORDER[k] = n
  THEN (CHOOSE k \in 1..Len(VALUE_TYPE_ORDER) : VALUE_TYPE_ORDER[k] = n) - 1
  ELSE -1

\* the comparator of typeArray.sort
CompareTypes(a, b) == OrderIndex(a.ty) - OrderIndex(b.ty)

RECURSIVE InsertSorted(_, _)
\* x put behind the last element of the sorted list that is not above it
InsertSorted(sorted, x) ==
  IF sorted = <<>> THEN <<x>>
  ELSE IF CompareTypes(sorted[Len(sorted)], x) <= 0 THEN Append(sorted, x)
  ELSE Append(InsertSorted(SubSeq(sorted, 1, Len(sorted) - 1), x), sorted[Len(sorted)])

\* the array left in the order the caller wrote it
DeclaredOrder(elems) == elems

RECURSIVE SortFrom(_, _)
SortFrom(elems, sorted) ==
  IF elems = <<>> THEN sorted
  ELSE SortFrom(Tail(elems), InsertSorted(sorted, Head(elems)))

\* typeArray.sort((a, b) => indexOf(a) - indexOf(b)): a stable sort
SortTypes(elems) == SortFrom(elems, <<>>)

\* the truth value of a JavaScript value in a condition
Truthy(v) ==
  CASE v.t \in {"undefined", "null", "nan"} -> FALSE
    [] v.t = "boolean" -> v.b
    [] v.t = "number" -> v.m # 0
    [] v.t = "string" /\ "s" \in DOMAIN v -> v.s # <<>>
    [] OTHER -> TRUE

RECURSIVE InsertTriggers(_, _, _, _, _)

\* lines 59-62: a trigger that is in parsed already is logged and replaced
InsertTrigger(h, parsed, warnings, option, j, trigger) ==
  InsertTriggers(h, AssignOwn(parsed, trigger, option).node,
                 IF Truthy(GetProp(h, parsed, trigger))
                 THEN Append(warnings, trigger) ELSE warnings,
                 option, j + 1)

\* lines 57-63: every trigger of option is put into parsed
InsertTriggers(h, parsed, warnings, option, j) ==
  IF j > Len(Node(h, GetProp(h, option, K_triggers)).elems)
  THEN [parsed |-> parsed, warnings |-> warnings]
  ELSE InsertTrigger(h, parsed, warnings, option, j,
                     Node(h, GetProp(h, option, K_triggers)).elems[j].s)

\* lines 53-55: the type array is sorted in place and becomes option.type
SortedType(option, typeArray) ==
  [h |-> AssignProp([typeArray.h EXCEPT ![typeArray.v.id].elems = SortTypes(@)],
                    option, K_type, typeArray.v).h,
   option |-> option]

\* line 51: option.type itself if it is an array, else a new array of it
TypeArrayOf(h, ty) ==
  IF Node(h, ty).t = "array" THEN [h |-> h, v |-> ty] ELSE Alloc(h, ArrV(<<ty>>))

NormalisedClone(c) == SortedType(c.v, TypeArrayOf(c.h, GetProp(c.h, c.v, K_type)))

\* lines 49-55: the descriptor is cloned and the clone's type becomes a
\* sorted array: [h, option]
NormaliseOption(h, descriptor) == NormalisedClone(clone(h, descriptor))

RECURSIVE CompileFrom(_, _, _, _, _)

CompileNext(h, options, i, t) == CompileFrom(h, options, i + 1, t.parsed, t.warnings)

CompileOption(options, i, parsed, warnings, n) ==
  CompileNext(n.h, options, i, InsertTriggers(n.h, parsed, warnings, n.option, 1))

\* lines 48-64
CompileFrom(h, options, i, parsed, warnings) ==
  IF i > Len(options) THEN [h |-> h, parsed |-> parsed, warnings |-> warnings]
  ELSE CompileOption(options, i, parsed, warnings, NormaliseOption(h, options[i]))

\* CmdLine.Options.parse(options): [h, parsed, warnings]
OptionsParse(h, options) == CompileFrom(h, options, 1, EmptyObj, <<>>)

(***************************************************************************)
(* CmdLine.parse: helpers.                                                 *)
(***************************************************************************)
RECURSIVE LastLongest(_, _, _)
\* the last of the longest triggers
LastLongest(triggers, j, longestTrigger) ==
  IF j > Len(triggers) THEN longestTrigger
  ELSE LastLongest(triggers, j + 1,
                   IF Len(triggers[j].s) >= Len(longestTrigger)
                   THEN triggers[j].s ELSE longestTrigger)

RECURSIVE Longest(_, _, _)
\* lines 83-89: the first of the longest triggers
Longest(triggers, j, longestTrigger) ==
  IF j > Len(triggers) THEN longestTrigger
  ELSE Longest(triggers, j + 1,
               IF Len(triggers[j].s) > Len(longestTrigger)
               THEN triggers[j].s ELSE longestTrigger)

RECURSIVE StripDashes(_)
\* lines 90-92
StripDashes(s) == IF Len(s) > 0 /\ s[1] = "-" THEN StripDashes(Tail(s)) ELSE s

\* getTarget(option): [threw, target]; reading .length of a missing
\* triggers property throws a TypeError
getTarget(h, option) ==
  LET tgt == GetProp(h, option, K_target)
      triggers == GetProp(h, option, K_triggers)
  IN IF Truthy(tgt) THEN [threw |-> FALSE, target |-> tgt.s]
     ELSE IF triggers.t \in {"undefined", "null"}
       THEN [threw |-> TRUE, target |-> <<>>]
     ELSE [threw |-> FALSE,
           target |-> StripDashes(Longest(Node(h, triggers).elems, 1, <<>>))]

\* the names in option.type
TypeNames(h, option) ==
  LET elems == Node(h, GetProp(h, option, K_type)).elems
  IN [k \in 1..Len(elems) |-> elems[k].ty]

Contains(list, x) == \E k \in 1..Len(list) : list[k] = x

\* the part of a token before its first '=' (the whole token without '=')
TriggerOf(arg) ==
  IF IndexOf(arg, "=") # -1 THEN Substring(arg, 0, IndexOf(arg, "=")) ELSE arg

RECURSIVE uniqueOptionsFrom(_, _, _, _)
\* lines 184-191: the first option of every target, in the order of the
\* triggers in the mapping (none of the triggers is an integer key)
uniqueOptionsFrom(h, options, k, acc) ==
  IF k > Len(options.keys) THEN acc
  ELSE LET option == options.vals[k]
           target == getTarget(h, option).target
       IN uniqueOptionsFrom(h, options, k + 1,
            IF \E j \in 1..Len(acc) : acc[j].target = target THEN acc
            ELSE Append(acc, [target |-> target, option |-> option]))

\* a scan that takes the next token whatever it is
ScanAnyToken(h, options, argv, j, isArray, acc) ==
  IF j >= Len(argv) THEN [values |-> acc, j |-> j]
  ELSE [values |-> Append(acc, argv[j + 1]), j |-> j + 1]

\* a scan that takes one value and leaves the cursor where it was
ScanInPlace(h, options, argv, j, isArray, acc) ==
  IF j >= Len(argv) THEN [values |-> acc, j |-> j]
  ELSE [values |-> Append(acc, argv[j + 1]), j |-> j]

RECURSIVE ScanWholeRun(_, _, _, _, _, _)
\* a scan that goes on to the next known trigger for every option
ScanWholeRun(h, options, argv, j, isArray, acc) ==
  IF j >= Len(argv) THEN [values |-> acc, j |-> j]
  ELSE IF GetProp(h, options, TriggerOf(argv[j + 1])).t # "undefined"
  THEN [values |-> acc, j |-> j]
  ELSE ScanWholeRun(h, options, argv, j + 1, isArray, Append(acc, argv[j + 1]))

RECURSIVE Scan(_, _, _, _, _, _)
\* lines 226-240: the tokens after the trigger that are taken as values:
\* [values, j]
Scan(h, options, argv, j, isArray, acc) ==
  IF j >= Len(argv) THEN [values |-> acc, j |-> j]
  ELSE LET nextArg == argv[j + 1]
       IN IF GetProp(h, options, TriggerOf(nextArg)).t # "undefined"
          THEN [values |-> acc, j |-> j]
          ELSE IF ~isArray THEN [values |-> Append(acc, nextArg), j |-> j + 1]
          ELSE Scan(h, options, argv, j + 1, isArray, Append(acc, nextArg))

(***************************************************************************)
(* What a parse call returns: an error message (its emitter and            *)
(* arguments), a result, or nothing because an exception left the call.    *)
(***************************************************************************)
NoOutcome == [kind |-> "none"]
Thrown == [kind |-> "throw"]
Returned(result) == [kind |-> "result", value |-> result]
ErrorMessage(name, a, b, c) == [kind |-> "error", name |-> name, a |-> a, b |-> b, c |-> c]

TypeChars(n) ==
  CASE n = "none" -> <<"n", "o", "n", "e">>
    [] n = "float" -> <<"f", "l", "o", "a", "t">>
    [] n = "integer" -> <<"i", "n", "t", "e", "g", "e", "r">>
    [] n = "boolean" -> <<"b", "o", "o", "l", "e", "a", "n">>
    [] n = "json" -> <<"j", "s", "o", "n">>
    [] n = "string" -> <<"s", "t", "r", "i", "n", "g">>
    [] OTHER -> <<"?">>

\* typeof v === 'object' && v !== null
IsObject(h, v) == Node(h, v).t \in {"object", "array"}

\* 'k' in v, for an object v
HasIn(h, v, k) == HasOwn(Node(h, v), k) \/ ProtoProp(k).t # "undefined"

RECURSIVE Coerce(_, _, _, _, _, _)

\* a map whose entries are stored as they are, pairs included
CoerceEntry(h, option, trigger, values, k, parsedValues, map, mapEntry) ==
  IF mapEntry.t = "undefined"
  THEN [outcome |-> ErrorMessage("invalidValueFromMap", trigger, values[k],
                                 Node(h, map).keys),
        parsedValues |-> parsedValues]
  ELSE Coerce(h, option, trigger, values, k + 1, Append(parsedValues, mapEntry))

\* lines 265-273: the value through the option's map
CoerceMapped(h, option, trigger, values, k, parsedValues, map, mapEntry) ==
  IF mapEntry.t = "undefined"
  THEN [outcome |-> ErrorMessage("invalidValueFromMap", trigger, values[k],
                                 Node(h, map).keys),
        parsedValues |-> parsedValues]
  ELSE Coerce(h, option, trigger, values, k + 1,
              Append(parsedValues,
                     IF IsObject(h, mapEntry) /\ HasIn(h, mapEntry, K_value)
                     THEN GetProp(h, mapEntry, K_value) ELSE mapEntry))

\* lines 274-279: the value through parseValue
CoerceParsed(h, option, trigger, values, k, parsedValues, typeArray, parsed) ==
  IF ~parsed.ok
  THEN [outcome |-> ErrorMessage("parsingFailed", trigger, values[k],
                                 [j \in 1..Len(typeArray) |-> TypeChars(typeArray[j])]),
        parsedValues |-> parsedValues]
  ELSE Coerce(h, option, trigger, values, k + 1, Append(parsedValues, parsed.value))

\* lines 263-281: every raw value through the map or through parseValue:
\* [outcome, parsedValues]
Coerce(h, option, trigger, values, k, parsedValues) ==
  IF k > Len(values) THEN [outcome |-> NoOutcome, parsedValues |-> parsedValues]
  ELSE IF Truthy(GetProp(h, option, K_map))
  THEN CoerceMapped(h, option, trigger, values, k, parsedValues,
                    GetProp(h, option, K_map),
                    GetProp(h, GetProp(h, option, K_map), values[k]))
  ELSE CoerceParsed(h, option, trigger, values, k, parsedValues,
                    TypeNames(h, option), parseValue(values[k], TypeNames(h, option)))

\* lines 284-291: the values appended to the array at the target, or a new
\* array written there
AppendValues(h, result, target, parsedValues, existing) ==
  IF Node(h, existing).t = "array" /\ existing.t = "ref"
  THEN [h |-> [h EXCEPT ![existing.id].elems = @ \o parsedValues],
        node |-> result, threw |-> FALSE]
  ELSE set(h, result, target,
           IF Node(h, existing).t = "array"
           THEN [existing EXCEPT !.elems = @ \o parsedValues]
           ELSE ArrV(parsedValues))

\* lines 283-294: the write of the coerced values: [h, node, threw]
WriteValues(h, result, target, isArray, parsedValues) ==
  IF isArray THEN AppendValues(h, result, target, parsedValues, get(h, result, target))
  ELSE set(h, result, target, parsedValues[1])

\* what one iteration of the loop did, in the loop's own variables: at is
\* the cursor it started at, stage how far it came ("unknown": line 208,
\* "threw": line 211, "repeated": line 214, "gathered": line 243 and on),
\* wrote what it wrote into the result ("flag", "values" or "nothing")
Event(at, stage, trigger, target, isArray, types, inline, values, parsed, wrote) ==
  [at |-> at, stage |-> stage, trigger |-> trigger, target |-> target,
   isArray |-> isArray, types |-> types, inline |-> inline, values |-> values,
   parsed |-> parsed, wrote |-> wrote]

\* the iteration ends the call, or leaves the loop's variables unchanged
Stop(c, outcome, i, seenTargets, event) ==
  [h |-> c.h, i |-> i, result |-> c.result, seenTargets |-> seenTargets,
   outcome |-> outcome, event |-> event]

\* the iteration wrote w into the result
Go(i, seenTargets, w, event) ==
  [h |-> w.h, i |-> i, result |-> w.node, seenTargets |-> seenTargets,
   outcome |-> IF w.threw THEN Thrown ELSE NoOutcome, event |-> event]

\* lines 263-294
Convert(c, trigger, target, isArray, typeArray, inline, g, coerced) ==
  IF coerced.outcome # NoOutcome
  THEN Stop(c, coerced.outcome, g.j, c.seenTargets \cup {target},
            Event(c.i, "gathered", trigger, target, isArray, typeArray, inline, g.values,
                  coerced.parsedValues, "nothing"))
  ELSE Go(g.j, c.seenTargets \cup {target},
          WriteValues(c.h, c.result, target, isArray, coerced.parsedValues),
          Event(c.i, "gathered", trigger, target, isArray, typeArray, inline, g.values,
                coerced.parsedValues, "values"))

\* an iteration that takes a flag for one only when no value came with it
FlagWithoutValues(c, trigger, option, target, isArray, typeArray, inline, g) ==
  IF Len(g.values) = 0 /\ (Contains(typeArray, "none") \/ Contains(typeArray, "boolean"))
    THEN Go(g.j, c.seenTargets \cup {target},
            set(c.h, c.result, target, Bool(TRUE)),
            Event(c.i, "gathered", trigger, target, isArray, typeArray, inline, g.values,
                  <<>>, "flag"))
  ELSE IF Len(g.values) = 0 \/ (~isArray /\ Len(g.values) > 1)
    THEN Stop(c, ErrorMessage(IF Len(g.values) = 0 THEN "missingValue" ELSE "tooManyValues",
                              trigger, <<>>, <<>>),
              g.j, c.seenTargets \cup {target},
              Event(c.i, "gathered", trigger, target, isArray, typeArray, inline,
                    g.values, <<>>, "nothing"))
  ELSE Convert(c, trigger, target, isArray, typeArray, inline, g,
               Coerce(c.h, option, trigger, g.values, 1, <<>>))

\* lines 245-261: g is what lines 218-243 gathered, g.j the cursor after it
Dispatch(c, trigger, option, target, isArray, typeArray, inline, g) ==
  IF Contains(typeArray, "none")
     \/ (Len(g.values) = 0 /\ Contains(typeArray, "boolean"))
    THEN Go(g.j, c.seenTargets \cup {target},
            set(c.h, c.result, target, Bool(TRUE)),
            Event(c.i, "gathered", trigger, target, isArray, typeArray, inline, g.values,
                  <<>>, "flag"))
  ELSE IF Len(g.values) = 0
    THEN Stop(c, ErrorMessage("missingValue", trigger, <<>>, <<>>),
              g.j, c.seenTargets \cup {target},
              Event(c.i, "gathered", trigger, target, isArray, typeArray, inline,
                    g.values, <<>>, "nothing"))
  ELSE IF ~isArray /\ Len(g.values) > 1
    THEN Stop(c, ErrorMessage("tooManyValues", trigger, <<>>, <<>>),
              g.j, c.seenTargets \cup {target},
              Event(c.i, "gathered", trigger, target, isArray, typeArray, inline,
                    g.values, <<>>, "nothing"))
  ELSE Convert(c, trigger, target, isArray, typeArray, inline, g,
               Coerce(c.h, option, trigger, g.values, 1, <<>>))

\* a gathering that scans forward for every option without inline value
GatherByScan(c, rawArg, trigger, option, target, isArray, typeArray, inline) ==
  Dispatch(c, trigger, option, target, isArray, typeArray, inline,
           IF inline
           THEN [values |-> IF IndexOf(rawArg, "=") + 1 < Len(rawArg)
                            THEN Split(Substring(rawArg, IndexOf(rawArg, "=") + 1,
                                                 Len(rawArg)), ",")
                            ELSE <<>>,
                 j |-> c.i + 1]
           ELSE Scan(c.h, c.options, c.argv, c.i + 1, isArray, <<>>))

\* lines 218-243: the raw values of the occurrence
Gather(c, rawArg, trigger, option, target, isArray, typeArray, inline) ==
  Dispatch(c, trigger, option, target, isArray, typeArray, inline,
           IF inline
           THEN [values |-> IF IndexOf(rawArg, "=") + 1 < Len(rawArg)
                            THEN Split(Substring(rawArg, IndexOf(rawArg, "=") + 1,
                                                 Len(rawArg)), ",")
                            ELSE <<>>,
                 j |-> c.i + 1]
           ELSE IF ~Contains(typeArray, "none") /\ ~Contains(typeArray, "boolean")
           THEN Scan(c.h, c.options, c.argv, c.i + 1, isArray, <<>>)
           ELSE [values |-> <<>>, j |-> c.i + 1])

\* an iteration that never looks into seenTargets
Unchecked(c, rawArg, trigger, option, target, isArray, typeArray, inline) ==
  Gather(c, rawArg, trigger, option, target, isArray, typeArray, inline)

\* lines 211-216
CheckRepeated(c, rawArg, trigger, option, target, isArray, typeArray, inline) ==
  IF ~isArray /\ target \in c.seenTargets
  THEN Stop(c, ErrorMessage("optionCannotBeRepeated", target, <<>>, <<>>),
            c.i, c.seenTargets,
            Event(c.i, "repeated", trigger, target, isArray, typeArray, inline, <<>>,
                  <<>>, "nothing"))
  ELSE Gather(c, rawArg, trigger, option, target, isArray, typeArray, inline)

\* line 211: getTarget(option)
CheckTarget(c, rawArg, trigger, option, inline, gt) ==
  IF gt.threw
  THEN Stop(c, Thrown, c.i, c.seenTargets,
            Event(c.i, "threw", trigger, <<>>, FALSE, <<>>, inline, <<>>, <<>>, "nothing"))
  ELSE CheckRepeated(c, rawArg, trigger, option, gt.target,
                     Truthy(GetProp(c.h, option, K_isArray)),
                     TypeNames(c.h, option), inline)

\* lines 205-209
CheckOption(c, rawArg, trigger, option, inline) ==
  IF ~Truthy(option)
  THEN Stop(c, ErrorMessage("unknownTrigger", trigger, <<>>, <<>>),
            c.i, c.seenTargets,
            Event(c.i, "unknown", trigger, <<>>, FALSE, <<>>, inline, <<>>, <<>>, "nothing"))
  ELSE CheckTarget(c, rawArg, trigger, option, inline, getTarget(c.h, option))

\* lines 196-204
ResolveTrigger(c, rawArg) ==
  CheckOption(c, rawArg, TriggerOf(rawArg), GetProp(c.h, c.options, TriggerOf(rawArg)),
              IndexOf(rawArg, "=") # -1)

\* lines 196-295: one iteration of the while loop at cursor i:
\* [h, i, result, seenTargets, outcome, event]
LoopBody(h, options, argv, i, result, seenTargets) ==
  ResolveTrigger([h |-> h, options |-> options, argv |-> argv, i |-> i,
                  result |-> result, seenTargets |-> seenTargets],
                 argv[i + 1])

RECURSIVE DefaultsFrom(_, _, _, _, _)

DefaultWritten(seenTargets, uniqueOptions, k, w) ==
  IF w.threw THEN w
  ELSE DefaultsFrom(w.h, w.node, seenTargets, uniqueOptions, k + 1)

\* lines 297-301: [h, node, threw]
DefaultsFrom(h, result, seenTargets, uniqueOptions, k) ==
  IF k > Len(uniqueOptions) THEN [h |-> h, node |-> result, threw |-> FALSE]
  ELSE IF uniqueOptions[k].target \notin seenTargets
          /\ GetProp(h, uniqueOptions[k].option, K_default).t # "undefined"
  THEN DefaultWritten(seenTargets, uniqueOptions, k,
                      set(h, result, uniqueOptions[k].target,
                          GetProp(h, uniqueOptions[k].option, K_default)))
  ELSE DefaultsFrom(h, result, seenTargets, uniqueOptions, k + 1)

RECURSIVE RunFrom(_, _, _, _, _, _, _)

RunNext(options, argv, uniqueOptions, b) ==
  IF b.outcome # NoOutcome THEN [h |-> b.h, outcome |-> b.outcome]
  ELSE RunFrom(b.h, options, argv, b.i, b.result, b.seenTargets, uniqueOptions)

\* line 303 (or the exception of a default write)
Finished(d) == [h |-> d.h, outcome |-> IF d.threw THEN Thrown ELSE Returned(d.node)]

\* lines 195-303
RunFrom(h, options, argv, i, result, seenTargets, uniqueOptions) ==
  IF i < Len(argv)
  THEN RunNext(options, argv, uniqueOptions,
               LoopBody(h, options, argv, i, result, seenTargets))
  ELSE Finished(DefaultsFrom(h, result, seenTargets, uniqueOptions, 1))

\* CmdLine.parse(options, argv) as one function: [h, outcome]
parse(h, options, argv) ==
  RunFrom(h, options, argv, 0, EmptyObj, {}, uniqueOptionsFrom(h, options, 1, <<>>))

RECURSIVE Deref(_, _)
\* the value with every reference replaced by the object it refers to
Deref(h, v) ==
  LET o == Node(h, v)
  IN CASE o.t = "object" ->
            ObjV(o.keys, [k \in 1..Len(o.vals) |-> Deref(h, o.vals[k])])
       [] o.t = "array" ->
            [t |-> "array", elems |-> [k \in 1..Len(o.elems) |-> Deref(h, o.elems[k])],
             keys |-> o.keys, vals |-> [k \in 1..Len(o.vals) |-> Deref(h, o.vals[k])]]
       [] OTHER -> o

(***************************************************************************)
(* The callers of the model: option descriptor lists as a program would    *)
(* write them, and the tokens handed to CmdLine.parse with each of them.   *)
(***************************************************************************)
Option(fields) ==
  ObjV([j \in 1..Len(fields) |-> fields[j][1]], [j \in 1..Len(fields) |-> fields[j][2]])

Triggers(list) == <<K_triggers, ArrV([j \in 1..Len(list) |-> Str(list[j])])>>

Type(n) == <<K_type, TyV(n)>>

Types(list) == <<K_type, ArrV([j \in 1..Len(list) |-> TyV(list[j])])>>

\* types declared against the precedence order
PrecedenceOptions ==
  <<Option(<<Triggers(<<<<"-", "s">>>>), Types(<<"string", "integer">>)>>),
    Option(<<Triggers(<<<<"-", "i">>>>), Types(<<"integer", "string">>)>>),
    Option(<<Triggers(<<<<"-", "f">>>>), Types(<<"json", "boolean", "float">>)>>)>>

PrecedenceTokens ==
  {
    <<"-", "s">>, <<"-", "i">>, <<"-", "f">>, <<"4", "2">>, <<"4", ".", "5">>,
    <<"x">>, <<"-", "s", "=", "1", "e", "3">>, <<"-", "i", "=">>,
    <<"-", "f", "=", "[", "1", ",", "2", "]">>
  }

\* whitelist maps, one entry a {value, description} pair
MapOptions ==
  <<Option(<<Triggers(<<<<"-", "m">>>>), Type("string"),
             <<K_map, Option(<<
                 <<<<"f", "a", "s", "t">>, Str(<<"F">>)>>,
                 <<<<"s", "l", "o", "w">>, Option(<<<<K_value, Num(2, 0)>>,
                                          <<K_description, Str(<<"d">>)>>>>)>>>>)>>>>),
    Option(<<Triggers(<<<<"-", "l">>>>), Type("integer"), <<K_isArray, Bool(TRUE)>>,
             <<K_map, Option(<<<<<<"1">>, Str(<<"o", "n", "e">>)>>,
                               <<<<"2">>, Option(<<<<K_description,
                                                     Str(<<"d">>)>>>>)>>>>)>>>>)>>

MapTokens ==
  {
    <<"-", "m">>, <<"-", "l">>, <<"f", "a", "s", "t">>, <<"s", "l", "o", "w">>,
    <<"2">>, <<"c", "o", "n", "s", "t", "r", "u", "c", "t", "o", "r">>,
    <<"-", "m", "=", "c", "o", "n", "s", "t", "r", "u", "c", "t", "o", "r">>, <<"-", "l", "=", "1", ",", "1">>
  }

\* aliases, options that share one target, a flag, defaults
TargetOptions ==
  <<Option(<<Triggers(<<<<"-", "i">>, <<"-", "-", "i", "n">>>>), Type("string")>>),
    Option(<<Triggers(<<<<"-", "j">>>>), Type("string"), <<K_target, Str(<<"i", "n">>)>>,
             <<K_default, Str(<<"d">>)>>>>),
    Option(<<Triggers(<<<<"-", "t">>>>), Type("string"), <<K_isArray, Bool(TRUE)>>,
             <<K_target, Str(<<"i", "n">>)>>>>),
    Option(<<Triggers(<<<<"-", "v">>>>), Type("none"), <<K_default, Bool(FALSE)>>>>)>>

TargetTokens ==
  {
    <<"-", "i">>, <<"-", "-", "i", "n">>, <<"-", "j">>, <<"-", "t">>,
    <<"-", "v">>, <<"a">>, <<"-", "-", "i", "n", "=", "b">>,
    <<"-", "v", "=", "a", ",", "b">>
  }

\* a target inside another target, an object as default
NestedOptions ==
  <<Option(<<Triggers(<<<<"-", "a">>>>), Type("string"), <<K_target, Str(<<"t">>)>>,
             <<K_default, EmptyObj>>>>),
    Option(<<Triggers(<<<<"-", "b">>>>), Type("integer"),
             <<K_target, Str(<<"t", ".", "y">>)>>, <<K_default, Num(2, 0)>>>>)>>

NestedTokens ==
  {
    <<"-", "a">>, <<"-", "b">>, <<"x">>, <<"7">>, <<"-", "a", "=", "x", ",", "y">>,
    <<"-", "b", "=", "7">>
  }

\* array-typed options, one of them a flag
ArrayOptions ==
  <<Option(<<Triggers(<<<<"-", "-", "t", "a", "g">>>>), Type("string"), <<K_isArray, Bool(TRUE)>>>>),
    Option(<<Triggers(<<<<"-", "b">>>>), Types(<<"boolean", "integer">>),
             <<K_isArray, Bool(TRUE)>>>>),
    Option(<<Triggers(<<<<"-", "n">>>>), Types(<<"string", "none">>),
             <<K_isArray, Bool(TRUE)>>,
             <<K_map, Option(<<<<<<"a">>, Str(<<"A">>)>>>>)>>>>)>>

ArrayTokens ==
  {
    <<"-", "-", "t", "a", "g">>, <<"-", "-", "t", "a", "g", "=", "a">>,
    <<"-", "-", "t", "a", "g", "=", "b", ",", "c">>, <<"1">>, <<"-", "b">>,
    <<"-", "b", "=", "1">>, <<"-", "b", "=">>, <<"-", "n", "=", "z", "z">>
  }

\* a trigger listed by two descriptors, aliases of equal length, a trigger
\* that is the name of a built-in property
DuplicateOptions ==
  <<Option(<<Triggers(<<<<"-", "x">>, <<"-", "y">>>>), Type("string")>>),
    Option(<<Triggers(<<<<"-", "y">>, K_constructor>>), Type("integer"),
             <<K_target, Str(<<"n">>)>>>>)>>

DuplicateTokens == {<<"-", "x">>, <<"-", "y">>, K_constructor, <<"a">>, <<"1">>}

\* json before a type that takes everything and before a type that does not
CoercionOptions ==
  <<Option(<<Triggers(<<<<"-", "j">>>>), Types(<<"string", "json">>)>>),
    Option(<<Triggers(<<<<"-", "o">>>>), Types(<<"json", "integer">>)>>)>>

CoercionTokens ==
  {<<"-", "j">>, <<"-", "o">>, <<"[", "x", "]">>, <<"{", "}">>, <<"7">>}

Callers ==
  <<[options |-> PrecedenceOptions, tokens |-> PrecedenceTokens],
    [options |-> MapOptions, tokens |-> MapTokens],
    [options |-> TargetOptions, tokens |-> TargetTokens],
    [options |-> NestedOptions, tokens |-> NestedTokens],
    [options |-> ArrayOptions, tokens |-> ArrayTokens],
    [options |-> DuplicateOptions, tokens |-> DuplicateTokens],
    [options |-> CoercionOptions, tokens |-> CoercionTokens]>>

RECURSIVE Materialise(_, _)
RECURSIVE MaterialiseAll(_, _, _)

MaterialiseNext(vals, acc, c) == MaterialiseAll(c.h, vals, Append(acc, c.v))

\* the values of a literal, its objects put on the heap: [h, vals]
MaterialiseAll(h, vals, acc) ==
  IF Len(acc) = Len(vals) THEN [h |-> h, vals |-> acc]
  ELSE MaterialiseNext(vals, acc, Materialise(h, vals[Len(acc) + 1]))

\* a literal of the caller as the object graph it denotes: [h, v]
Materialise(h, lit) ==
  IF lit.t \in {"array", "object"} /\ "keys" \in DOMAIN lit
  THEN Cloned(lit, MaterialiseAll(h, IF lit.t = "array" THEN lit.elems ELSE lit.vals,
                                  <<>>))
  ELSE [h |-> h, v |-> lit]

\* the token lists of at most MaxArgs tokens
Lines(tokens) == UNION {[1..n -> tokens] : n \in 0..MaxArgs}

(***************************************************************************)
(* stringToArgv (lines 95-137): the pieces of its loop body.               *)
(***************************************************************************)
\* a space splits wherever it stands
AnySpace(char, inQuotes) == char = " "

\* if (char === ' ' && !inQuotes): line 120
IsSeparator(char, inQuotes) == char = " " /\ ~inQuotes

\* args.push(currentArg), whatever currentArg holds
PushAlways(args, currentArg) == Append(args, currentArg)

\* if (currentArg.length > 0) { args.push(currentArg) }: lines 122-123, 132-134
PushArg(args, currentArg) ==
  IF Len(currentArg) > 0 THEN Append(args, currentArg) ELSE args

(***************************************************************************)
(* JavaScript numbers that are integers (src/src/types/f64/index.ts).      *)
(* U32 values do not fit the integers of the model checker, so a number    *)
(* is a sign and a magnitude, the magnitude as four digits of base 65536,  *)
(* least significant first.  Sums, differences, quotients and remainders   *)
(* of 32-bit operands are exact in a double; a product above 2^53 is       *)
(* rounded to a double that is still above 2^32, so that its comparison    *)
(* with U32.MAX is the comparison of the exact product.                    *)
(***************************************************************************)
IntV(neg, mag) == [neg |-> neg, mag |-> mag]

\* a number below 2^31
Natural(n) == IntV(FALSE, <<n % 65536, n \div 65536, 0, 0>>)

\* the number of a hexadecimal literal of eight digits
Hex(d) ==
  IntV(FALSE, <<d[5] * 4096 + d[6] * 256 + d[7] * 16 + d[8],
                d[1] * 4096 + d[2] * 256 + d[3] * 16 + d[4], 0, 0>>)

Zero == Natural(0)
One == Natural(1)

MagLess(x, y) ==
  \E k \in 1..4 : x[k] < y[k] /\ \A j \in (k + 1)..4 : x[j] = y[j]

RECURSIVE AddFrom(_, _, _, _, _)
\* x + y + carry, digit k upwards
AddFrom(x, y, k, carry, acc) ==
  IF k > 4 THEN acc
  ELSE AddFrom(x, y, k + 1, (x[k] + y[k] + carry) \div 65536,
               Append(acc, (x[k] + y[k] + carry) % 65536))

MagAdd(x, y) == AddFrom(x, y, 1, 0, <<>>)

RECURSIVE SubFrom(_, _, _, _, _)
\* x - y - borrow for x >= y, digit k upwards
SubFrom(x, y, k, borrow, acc) ==
  IF k > 4 THEN acc
  ELSE SubFrom(x, y, k + 1, IF x[k] - y[k] - borrow < 0 THEN 1 ELSE 0,
               Append(acc, (x[k] - y[k] - borrow + 65536) % 65536))

MagSub(x, y) == SubFrom(x, y, 1, 0, <<>>)

\* the product of two digits, as two digits, through their halves of 8 bits
DigitProductSum(a, b, mid, low) ==
  <<low % 65536,
    (a \div 256) * (b \div 256) + mid \div 256 + low \div 65536>>

DigitProductMid(a, b, mid) ==
  DigitProductSum(a, b, mid, (mid % 256) * 256 + (a % 256) * (b % 256))

DigitProduct(a, b) ==
  DigitProductMid(a, b, (a \div 256) * (b % 256) + (a % 256) * (b \div 256))

\* the digits of a sum of digits per place, carries taken along
RECURSIVE Carried(_, _, _, _)
Carried(sums, k, carry, acc) ==
  IF k > 4 THEN acc
  ELSE Carried(sums, k + 1, (sums[k] + carry) \div 65536,
               Append(acc, (sums[k] + carry) % 65536))

MagMulOf(ll, lh, hl, hh) ==
  Carried(<<ll[1], ll[2] + lh[1] + hl[1], lh[2] + hl[2] + hh[1], hh[2]>>, 1, 0, <<>>)

\* x * y for x, y < 2^32
MagMul(x, y) ==
  MagMulOf(DigitProduct(x[1], y[1]), DigitProduct(x[1], y[2]),
           DigitProduct(x[2], y[1]), DigitProduct(x[2], y[2]))

\* binary digit k (from 1) of a magnitude
BitOf(x, k) == (x[((k - 1) \div 16) + 1] \div (2 ^ ((k - 1) % 16))) % 2

RECURSIVE MagDiv(_, _, _, _, _)

MagDivStep(n, d, k, r, q) ==
  IF MagLess(r, d) THEN MagDiv(n, d, k - 1, r, q)
  ELSE MagDiv(n, d, k - 1, MagSub(r, d),
              [q EXCEPT ![((k - 1) \div 16) + 1] = @ + 2 ^ ((k - 1) % 16)])

\* long division of n < 2^32 by d > 0, binary digit k downwards: [q, r]
MagDiv(n, d, k, r, q) ==
  IF k = 0 THEN [q |-> q, r |-> r]
  ELSE MagDivStep(n, d, k, AddFrom(r, r, 1, BitOf(n, k), <<>>), q)

\* a + b, a - b, a * b, a / b truncated and a % b for a, b >= 0
Plus(a, b) == IntV(FALSE, MagAdd(a.mag, b.mag))

Minus(a, b) ==
  IF MagLess(a.mag, b.mag) THEN IntV(TRUE, MagSub(b.mag, a.mag))
  ELSE IntV(FALSE, MagSub(a.mag, b.mag))

Times(a, b) == IntV(FALSE, MagMul(a.mag, b.mag))

Quotient(a, b) == IntV(FALSE, MagDiv(a.mag, b.mag, 32, Zero.mag, Zero.mag).q)

Remainder(a, b) == IntV(FALSE, MagDiv(a.mag, b.mag, 32, Zero.mag, Zero.mag).r)

\* a < b
Less(a, b) ==
  IF a.neg # b.neg THEN a.neg
  ELSE IF a.neg THEN MagLess(b.mag, a.mag) ELSE MagLess(a.mag, b.mag)

\* ToUint32 as two digits: the number modulo 2^32
Word(v) ==
  IF v.neg THEN SubSeq(MagSub(<<0, 0, 1, 0>>, <<v.mag[1], v.mag[2], 0, 0>>), 1, 2)
  ELSE SubSeq(v.mag, 1, 2)

\* the unsigned and the signed (two's complement) number of a word
Unsigned(w) == IntV(FALSE, <<w[1], w[2], 0, 0>>)

Signed(w) ==
  IF w[2] >= 32768 THEN IntV(TRUE, MagSub(<<0, 0, 1, 0>>, <<w[1], w[2], 0, 0>>))
  ELSE IntV(FALSE, <<w[1], w[2], 0, 0>>)

ShlWord(w, n) ==
  IF n >= 16 THEN <<0, (w[1] * 2 ^ (n - 16)) % 65536>>
  ELSE <<(w[1] * 2 ^ n) % 65536, (w[2] * 2 ^ n + w[1] \div 2 ^ (16 - n)) % 65536>>

UshrWord(w, n) ==
  IF n >= 16 THEN <<w[2] \div 2 ^ (n - 16), 0>>
  ELSE <<w[1] \div 2 ^ n + (w[2] % 2 ^ n) * 2 ^ (16 - n), w[2] \div 2 ^ n>>

RECURSIVE XorDigit(_, _, _)
\* a ^ b for two digits, binary digit k upwards
XorDigit(a, b, k) ==
  IF k = 16 THEN 0
  ELSE ((a \div 2 ^ k + b \div 2 ^ k) % 2) * 2 ^ k + XorDigit(a, b, k + 1)

XorWord(x, y) == <<XorDigit(x[1], y[1], 0), XorDigit(x[2], y[2], 0)>>

\* v << n, v >>> n, a ^ b, v | 0
Shl(v, n) == Signed(ShlWord(Word(v), n))

Ushr(v, n) == Unsigned(UshrWord(Word(v), n))

Xor(a, b) == Signed(XorWord(Word(a), Word(b)))

Or0(v) == Signed(Word(v))

(***************************************************************************)
(* namespace U32 and F64.getRandom.                                        *)
(***************************************************************************)
\* export const MIN = 0, MAX = 4294967295
U32_MIN == Natural(0)
U32_MAX == Hex(<<15, 15, 15, 15, 15, 15, 15, 15>>)

\* 0xDEADBEEF
DEADBEEF == Hex(<<13, 14, 10, 13, 11, 14, 14, 15>>)

\* const RAND_MAX_U32 = 2 ** 31
RAND_MAX_U32 == Hex(<<8, 0, 0, 0, 0, 0, 0, 0>>)

\* seed = newSeed === 0 ? 0xDEADBEEF : newSeed
U32_setSeed(newSeed) == IF newSeed = Zero THEN DEADBEEF ELSE newSeed

\* lines 102-104: the three xorshift assignments
XorShl(x, n) == Xor(x, Shl(x, n))

XorUshr(x, n) == Xor(x, Ushr(x, n))

\* U32.getRandom with the given seed: [seed, value]
U32_getRandom(seed) ==
  [seed |-> XorShl(XorUshr(XorShl(seed, 13), 17), 5),
   value |-> Ushr(XorShl(XorUshr(XorShl(seed, 13), 17), 5), 0)]

\* a quotient of two numbers that is not computed further
Ratio(num, den) == [num |-> num, den |-> den]

\* F64.getRandom with the given seed: [seed, value]
F64_getRandom(seed) ==
  [seed |-> U32_getRandom(seed).seed,
   value |-> Ratio(U32_getRandom(seed).value, RAND_MAX_U32)]

\* result > MAX ? MAX : result
ClampMax(result) == IF Less(U32_MAX, result) THEN U32_MAX ELSE result

\* result < MIN ? MIN : result
ClampMin(result) == IF Less(result, U32_MIN) THEN U32_MIN ELSE result

U32_add(a, b) == ClampMax(Plus(a, b))

U32_sub(a, b) == ClampMin(Minus(a, b))

U32_mul(a, b) == ClampMax(Times(a, b))

U32_div(numerator, denominator) ==
  IF denominator = Zero THEN (IF numerator = Zero THEN One ELSE U32_MAX)
  ELSE Or0(Quotient(numerator, denominator))

U32_mod(numerator, denominator) ==
  IF denominator = Zero THEN Zero ELSE Remainder(numerator, denominator)

\* the operands of the model: the ends of the range, the two sides of 2^31
\* and of 2^16, small numbers
Operands ==
  {Natural(0), Natural(1), Natural(3), Natural(65535), Natural(65536), Natural(2147483647),
   Hex(<<8, 0, 0, 0, 0, 0, 0, 0>>), U32_MAX}

\* the seeds a program sets
Seeds == {Natural(0), Natural(1), Natural(3), Hex(<<8, 0, 0, 0, 0, 0, 0, 0>>), U32_MAX}

(***************************************************************************)
(* namespace Log (src/unnamed/part_001): the module variables GroupIDNext, *)
(* GroupIDsAvailable (a Set: its elements in insertion order) and groups   *)
(* (the record of every group by its ID), as one record.                   *)
(***************************************************************************)
\* export const INFO = 2
INFO == 2

\* lines 380-382: the module variables before any call
LogNew == [GroupIDNext |-> 0, GroupIDsAvailable |-> <<>>, groups |-> <<>>]

\* Set.prototype.add, Set.prototype.delete
SetAdd(ids, x) == IF \E n \in 1..Len(ids) : ids[n] = x THEN ids ELSE Append(ids, x)

SetDelete(ids, x) == SelectSeq(ids, LAMBDA y : y # x)

\* groups[GroupID] = group
PutGroup(groups, GroupID, group) ==
  [id \in DOMAIN groups \cup {GroupID} |-> IF id = GroupID THEN group ELSE groups[id]]

\* lines 389-395: the ID create chooses and the module variables after it
\* chose: [GroupID, GroupIDNext, GroupIDsAvailable]
ChooseID(l) ==
  IF Len(l.GroupIDsAvailable) # 0
  THEN [GroupID |-> l.GroupIDsAvailable[1],
        GroupIDNext |-> l.GroupIDNext,
        GroupIDsAvailable |-> SetDelete(l.GroupIDsAvailable, l.GroupIDsAvailable[1])]
  ELSE [GroupID |-> l.GroupIDNext,
        GroupIDNext |-> l.GroupIDNext + 1,
        GroupIDsAvailable |-> SetAdd(l.GroupIDsAvailable, l.GroupIDNext)]

\* lines 397-404
CreateWith(l, name, c) ==
  [log |-> [GroupIDNext |-> c.GroupIDNext,
            GroupIDsAvailable |-> c.GroupIDsAvailable,
            groups |-> PutGroup(l.groups, c.GroupID,
                                [id |-> c.GroupID, name |-> name, entries |-> <<>>])],
   GroupID |-> c.GroupID]

\* Log.Group.create(name): [log, GroupID]
Group_create(l, name) == CreateWith(l, name, ChooseID(l))

\* Log.Group.remove(GroupID)
Group_remove(l, GroupID) ==
  [l EXCEPT !.groups = [id \in DOMAIN l.groups \ {GroupID} |-> l.groups[id]],
            !.GroupIDsAvailable = SetAdd(@, GroupID)]

\* Log.push(message, level, data, GroupID); the entry without its times
Log_push(l, message, level, GroupID) ==
  [l EXCEPT !.groups[GroupID].entries =
              Append(@, [level |-> level, message |-> message])]

\* export const preferred = create('default'): the module once it is loaded
LogLoaded == Group_create(LogNew, "default").log

(***************************************************************************)
(* class FileSystem_Memory (src/src/file_system/disk_memory.ts).           *)
(* The nodes of the tree are objects held by reference: nodes is the       *)
(* sequence of all nodes ever made, a reference is an index into it, and   *)
(* nodes[1] is this.root.  A directory's children (a Map) are its entries  *)
(* [name, id] in insertion order.  The field modified and the messages     *)
(* handed to Log.push are left out.                                        *)
(***************************************************************************)
DirectoryNode(name) == [type |-> "directory", name |-> name, children |-> <<>>]

FileNode(name, content) == [type |-> "file", name |-> name, content |-> content]

\* lines 9-14: the root of a new file system
DiskNew == <<DirectoryNode(<<>>)>>

\* Map.prototype.get (0 is undefined), set and delete
MapGet(children, name) ==
  IF \E n \in 1..Len(children) : children[n].name = name
  THEN children[CHOOSE n \in 1..Len(children) : children[n].name = name].id
  ELSE 0

MapSet(children, name, id) ==
  IF \E n \in 1..Len(children) : children[n].name = name
  THEN [n \in 1..Len(children) |->
          IF children[n].name = name THEN [name |-> name, id |-> id] ELSE children[n]]
  ELSE Append(children, [name |-> name, id |-> id])

MapDelete(children, name) == SelectSeq(children, LAMBDA e : e.name # name)

\* path.split('/').filter(p => p.length > 0)
Parts(path) == SelectSeq(Split(path, "/"), LAMBDA p : Len(p) > 0)

\* '/' + parts.join('/')
Rooted(parts) == <<"/">> \o Join(parts, "/")

\* lines 363-371 and 373-378
join(a, b) == Rooted(Parts(a) \o Parts(b))

dirname(pathStr) ==
  IF Len(Parts(pathStr)) <= 1 THEN <<"/">>
  ELSE Rooted(SubSeq(Parts(pathStr), 1, Len(Parts(pathStr)) - 1))

NoPath == [ok |-> FALSE, parent |-> 0, name |-> <<>>]

RECURSIVE ResolveFrom(_, _, _, _)
\* lines 26-38: the walk down to the parent of the last part
ResolveFrom(nodes, parts, k, current) ==
  IF k > Len(parts) - 1
  THEN [ok |-> TRUE, parent |-> current, name |-> parts[Len(parts)]]
  ELSE IF MapGet(nodes[current].children, parts[k]) = 0
          \/ nodes[MapGet(nodes[current].children, parts[k])].type # "directory"
  THEN NoPath
  ELSE ResolveFrom(nodes, parts, k + 1, MapGet(nodes[current].children, parts[k]))

\* lines 18-39: [ok, parent, name], ok FALSE for null
resolvePath(nodes, filePath) ==
  IF Len(Parts(filePath)) = 0 THEN [ok |-> TRUE, parent |-> 1, name |-> <<>>]
  ELSE ResolveFrom(nodes, Parts(filePath), 1, 1)

\* lines 45-46
ChildOf(nodes, resolved) ==
  IF ~resolved.ok THEN 0 ELSE MapGet(nodes[resolved.parent].children, resolved.name)

\* lines 41-47: the node, 0 for null
getNode(nodes, filePath) == ChildOf(nodes, resolvePath(nodes, filePath))

RECURSIVE CreateFrom(_, _, _, _)

\* lines 55-65: one part of the path
CreatePart(nodes, parts, k, current, child) ==
  IF child = 0 \/ nodes[child].type # "directory"
  THEN CreateFrom(Append([nodes EXCEPT ![current].children =
                                         MapSet(@, parts[k], Len(nodes) + 1)],
                         DirectoryNode(parts[k])),
                  parts, k + 1, Len(nodes) + 1)
  ELSE CreateFrom(nodes, parts, k + 1, child)

CreateFrom(nodes, parts, k, current) ==
  IF k > Len(parts) THEN nodes
  ELSE CreatePart(nodes, parts, k, current, MapGet(nodes[current].children, parts[k]))

\* lines 49-69: the nodes after createDir(dirPath)
createDir(nodes, dirPath) ==
  IF dirPath = <<>> \/ dirPath = <<".">> THEN nodes
  ELSE CreateFrom(nodes, Parts(dirPath), 1, 1)

\* parent.children.set(name, fileNode) with a new file node
PutFile(nodes, resolved, content) ==
  Append([nodes EXCEPT ![resolved.parent].children =
                         MapSet(@, resolved.name, Len(nodes) + 1)],
         FileNode(resolved.name, content))

\* lines 97-115
WriteResolved(nodes, resolved, data) ==
  IF ~resolved.ok THEN [nodes |-> nodes, value |-> FALSE]
  ELSE [nodes |-> PutFile(nodes, resolved, data), value |-> TRUE]

WriteIn(nodes, filePath, data) == WriteResolved(nodes, resolvePath(nodes, filePath), data)

\* lines 90-117: [nodes, value]
writeFile(nodes, filePath, data) == WriteIn(createDir(nodes, dirname(filePath)), filePath, data)

\* lines 80-88: [threw, value]
readFile(nodes, filePath) ==
  IF getNode(nodes, filePath) = 0 \/ nodes[getNode(nodes, filePath)].type # "file"
  THEN [threw |-> TRUE, value |-> <<>>]
  ELSE [threw |-> FALSE, value |-> nodes[getNode(nodes, filePath)].content]

\* lines 292-300
exist(nodes, path) == getNode(nodes, path) # 0

isFile(nodes, path) ==
  getNode(nodes, path) # 0 /\ nodes[getNode(nodes, path)].type = "file"

\* lines 153-173
RemoveResolved(nodes, resolved, recursive, node) ==
  IF node = 0 THEN [nodes |-> nodes, value |-> FALSE]
  ELSE IF nodes[node].type = "directory" /\ ~recursive /\ Len(nodes[node].children) > 0
  THEN [nodes |-> nodes, value |-> FALSE]
  ELSE [nodes |-> [nodes EXCEPT ![resolved.parent].children =
                                   MapDelete(@, resolved.name)],
        value |-> TRUE]

RemoveIn(nodes, resolved, recursive) ==
  IF ~resolved.ok THEN [nodes |-> nodes, value |-> FALSE]
  ELSE RemoveResolved(nodes, resolved, recursive,
                      MapGet(nodes[resolved.parent].children, resolved.name))

\* lines 146-174: [nodes, value]
remove(nodes, path, recursive) == RemoveIn(nodes, resolvePath(nodes, path), recursive)

\* lines 213-226
CopyInto(nodes, srcNode, destPath) ==
  PutFile(nodes, resolvePath(nodes, destPath), nodes[srcNode].content)

\* lines 208-227: the nodes after copyFileNode(srcNode, destPath)
copyFileNode(nodes, srcNode, destPath) ==
  CopyInto(createDir(nodes, dirname(destPath)), srcNode, destPath)

\* one call of copyDirectoryRecursive that is running: the directory it
\* iterates, its destination, the entries its for loop has taken
Frame(node, destPath) == [node |-> node, destPath |-> destPath, k |-> 0]

\* the paths and the contents of the model
FsPaths == {<<"/", "a">>, <<"/", "a", "/", "b">>, <<"/", "b">>}

FsData == {<<"x">>, <<"y">>}

(***************************************************************************)
(* State.                                                                  *)
(***************************************************************************)
VARIABLES
  caller,         \* which program of Callers runs
  heap,           \* the objects held by reference
  descriptors,    \* the caller's Option[] (references)
  options,        \* the Options.Parsed mapping, undefined before compilation
  warnings,       \* the triggers logged as duplicates by the compiler
  compiledHeap,   \* heap as it was when the compiler returned
  calls,          \* CmdLine.parse calls made so far
  pc,             \* "new", "idle", "loop" (inside parse) or "done" (parse returned)
  argv,           \* parse: the tokens
  i,              \* parse: the cursor
  result,         \* parse: the result under construction
  seenTargets,    \* parse: the targets used in this call
  uniqueOptions,  \* parse: the first option of every target
  outcome,        \* what the call returned
  events,         \* what every loop iteration of the call did
  tokenizer,      \* stringToArgv: its argument, its locals and where it stands
  seed,           \* U32: the module variable seed
  draws,          \* the random numbers drawn so far
  number,         \* the last call into U32 or F64: function, arguments, value
  log,            \* Log: GroupIDNext, GroupIDsAvailable, groups
  logCalls,       \* the calls into Log: how many of each, the IDs that create
                  \* returned and remove has not been given, the last ID returned
  nodes,          \* FileSystem_Memory: the nodes, nodes[1] the root
  copier,         \* the copy call that is running: the calls of
                  \* copyDirectoryRecursive on the stack, how many were made,
                  \* the directories under the source when copy was called
  fsCalls         \* the calls into the file system: how many, the last one and
                  \* its value, the files written and not written over since

vars == <<caller, heap, descriptors, options, warnings, compiledHeap, calls, pc,
          argv, i, result, seenTargets, uniqueOptions, outcome, events,
          tokenizer, seed, draws, number, log, logCalls, nodes, copier, fsCalls>>

fsVars == <<nodes, copier, fsCalls>>

numberVars == <<seed, draws, number>>

logVars == <<log, logCalls>>

parserVars == <<caller, heap, descriptors, options, warnings, compiledHeap,
                calls, pc, argv, i, result, seenTargets, uniqueOptions, outcome,
                events>>

compilerVars == <<caller, descriptors, options, warnings, compiledHeap>>

\* the parts of the library that a specification leaves alone
TokenizerIdle ==
  tokenizer = [phase |-> "idle", line |-> <<>>, i |-> 0, currentArg |-> <<>>,
               inQuotes |-> FALSE, isEscaped |-> FALSE, args |-> <<>>]

NumbersIdle ==
  /\ seed = DEADBEEF
  /\ draws = 0
  /\ number = [fn |-> "none"]

LogIdle ==
  /\ log = LogLoaded
  /\ logCalls = [creates |-> 0, pushes |-> 0, live |-> {0}, returned |-> 0]

CopierIdle == [phase |-> "idle", stack |-> <<>>, visits |-> 0, srcDirs |-> 0]

FsIdle ==
  /\ nodes = DiskNew
  /\ copier = CopierIdle
  /\ fsCalls = [ops |-> 0, last |-> [fn |-> "none"], written |-> {}]

ParserIdle ==
  /\ caller = 1
  /\ heap = <<>>
  /\ descriptors = <<>>
  /\ options = Undefined
  /\ warnings = <<>>
  /\ compiledHeap = <<>>
  /\ calls = 0
  /\ pc = "new"
  /\ argv = <<>>
  /\ i = 0
  /\ result = Undefined
  /\ seenTargets = {}
  /\ uniqueOptions = <<>>
  /\ outcome = NoOutcome
  /\ events = <<>>

Init ==
  /\ caller \in 1..Len(Callers)
  /\ \E m \in {MaterialiseAll(<<FnV("Object")>>, Callers[caller].options, <<>>)} :
       heap = m.h /\ descriptors = m.vals
  /\ options = Undefined
  /\ warnings = <<>>
  /\ compiledHeap = <<>>
  /\ calls = 0
  /\ pc = "new"
  /\ argv = <<>>
  /\ i = 0
  /\ result = Undefined
  /\ seenTargets = {}
  /\ uniqueOptions = <<>>
  /\ outcome = NoOutcome
  /\ events = <<>>
  /\ TokenizerIdle
  /\ NumbersIdle
  /\ LogIdle
  /\ FsIdle

\* const parsedOptions = CmdLine.Options.parse(options)
Compile ==
  /\ pc = "new"
  /\ \E c \in {OptionsParse(heap, descriptors)} :
        /\ heap' = c.h
        /\ compiledHeap' = c.h
        /\ options' = c.parsed
        /\ warnings' = c.warnings
  /\ pc' = "idle"
  /\ UNCHANGED <<caller, descriptors, calls, argv, i, result, seenTargets,
                 uniqueOptions, outcome, events, tokenizer, numberVars, logVars, fsVars>>

\* CmdLine.parse(parsedOptions, line) is entered: lines 180-194
ParseStart(line) ==
  /\ pc = "idle"
  /\ calls < MaxCalls
  /\ calls' = calls + 1
  /\ argv' = line
  /\ i' = 0
  /\ result' = EmptyObj
  /\ seenTargets' = {}
  /\ uniqueOptions' = uniqueOptionsFrom(heap, options, 1, <<>>)
  /\ outcome' = NoOutcome
  /\ events' = <<>>
  /\ pc' = "loop"
  /\ UNCHANGED <<heap, compilerVars, tokenizer, numberVars, logVars, fsVars>>

\* one iteration of the while loop: lines 195-295
ParseArg ==
  /\ pc = "loop"
  /\ i < Len(argv)
  /\ \E b \in {LoopBody(heap, options, argv, i, result, seenTargets)} :
        /\ heap' = b.h
        /\ i' = b.i
        /\ result' = b.result
        /\ seenTargets' = b.seenTargets
        /\ outcome' = b.outcome
        /\ events' = Append(events, b.event)
        /\ pc' = IF b.outcome = NoOutcome THEN "loop" ELSE "done"
  /\ UNCHANGED <<compilerVars, calls, argv, uniqueOptions, tokenizer, numberVars, logVars, fsVars>>

\* the loop is left, the defaults are written and the result returned:
\* lines 297-303
ParseDefaults ==
  /\ pc = "loop"
  /\ i >= Len(argv)
  /\ \E d \in {Finished(DefaultsFrom(heap, result, seenTargets, uniqueOptions, 1))} :
        /\ heap' = d.h
        /\ outcome' = d.outcome
        /\ result' = IF d.outcome = Thrown THEN result ELSE d.outcome.value
  /\ pc' = "done"
  /\ UNCHANGED <<compilerVars, calls, argv, i, seenTargets, uniqueOptions, events,
                 tokenizer, numberVars, logVars, fsVars>>

\* the call is over: its local variables are gone, the objects it shared
\* with the options stay as it left them
ParseReturn ==
  /\ pc = "done"
  /\ pc' = "idle"
  /\ argv' = <<>>
  /\ i' = 0
  /\ result' = Undefined
  /\ seenTargets' = {}
  /\ uniqueOptions' = <<>>
  /\ outcome' = NoOutcome
  /\ events' = <<>>
  /\ UNCHANGED <<heap, compilerVars, calls, tokenizer, numberVars, logVars, fsVars>>

Next ==
  \/ Compile
  \/ \E line \in Lines(Callers[caller].tokens) : ParseStart(line)
  \/ ParseArg
  \/ ParseDefaults
  \/ ParseReturn

Spec == Init /\ [][Next]_vars

(***************************************************************************)
(* stringToArgv(line) on its own: every line of at most MaxChars           *)
(* characters over the characters the function tells apart (the space, the *)
(* double quote, the backslash) and two ordinary ones.                     *)
(***************************************************************************)
\* lines 96-100: the locals as the function starts
TokenizerInit ==
  /\ \E n \in 0..MaxChars :
       \E line \in [1..n -> {" ", "\"", "\\", "a", "b"}] :
         tokenizer = [phase |-> "loop", line |-> line, i |-> 0,
                      currentArg |-> <<>>, inQuotes |-> FALSE,
                      isEscaped |-> FALSE, args |-> <<>>]
  /\ ParserIdle
  /\ NumbersIdle
  /\ LogIdle
  /\ FsIdle

\* one iteration of the for loop: lines 102-129
TokenizeChar ==
  /\ tokenizer.phase = "loop"
  /\ tokenizer.i < Len(tokenizer.line)
  /\ \E char \in {tokenizer.line[tokenizer.i + 1]} :
       tokenizer' =
         IF tokenizer.isEscaped
         THEN [tokenizer EXCEPT !.currentArg = Append(@, char),
                                !.isEscaped = FALSE, !.i = @ + 1]
         ELSE IF char = "\\"
         THEN [tokenizer EXCEPT !.isEscaped = TRUE, !.i = @ + 1]
         ELSE IF char = "\""
         THEN [tokenizer EXCEPT !.inQuotes = ~@, !.i = @ + 1]
         ELSE IF IsSeparator(char, tokenizer.inQuotes)
         THEN [tokenizer EXCEPT !.args = PushArg(@, tokenizer.currentArg),
                                !.currentArg = <<>>, !.i = @ + 1]
         ELSE [tokenizer EXCEPT !.currentArg = Append(@, char), !.i = @ + 1]
  /\ UNCHANGED <<parserVars, numberVars, logVars, fsVars>>

\* the loop is left, the last argument pushed and args returned: lines 131-136
TokenizeEnd ==
  /\ tokenizer.phase = "loop"
  /\ tokenizer.i >= Len(tokenizer.line)
  /\ tokenizer' = [tokenizer EXCEPT !.args = PushArg(@, tokenizer.currentArg),
                                     !.phase = "returned"]
  /\ UNCHANGED <<parserVars, numberVars, logVars, fsVars>>

TokenizerNext ==
  \/ TokenizeChar
  \/ TokenizeEnd

TokenizerSpec == TokenizerInit /\ [][TokenizerNext]_vars

(***************************************************************************)
(* The arithmetic of U32 on its own: any call with operands of Operands.   *)
(***************************************************************************)
U32Init ==
  /\ ParserIdle
  /\ TokenizerIdle
  /\ NumbersIdle
  /\ LogIdle
  /\ FsIdle

U32Add(a, b) ==
  /\ number' = [fn |-> "add", a |-> a, b |-> b, value |-> U32_add(a, b)]
  /\ UNCHANGED <<parserVars, tokenizer, seed, draws, logVars, fsVars>>

U32Sub(a, b) ==
  /\ number' = [fn |-> "sub", a |-> a, b |-> b, value |-> U32_sub(a, b)]
  /\ UNCHANGED <<parserVars, tokenizer, seed, draws, logVars, fsVars>>

U32Mul(a, b) ==
  /\ number' = [fn |-> "mul", a |-> a, b |-> b, value |-> U32_mul(a, b)]
  /\ UNCHANGED <<parserVars, tokenizer, seed, draws, logVars, fsVars>>

U32Div(a, b) ==
  /\ number' = [fn |-> "div", a |-> a, b |-> b, value |-> U32_div(a, b)]
  /\ UNCHANGED <<parserVars, tokenizer, seed, draws, logVars, fsVars>>

U32Mod(a, b) ==
  /\ number' = [fn |-> "mod", a |-> a, b |-> b, value |-> U32_mod(a, b)]
  /\ UNCHANGED <<parserVars, tokenizer, seed, draws, logVars, fsVars>>

U32Next ==
  \/ \E a, b \in Operands : U32Add(a, b)
  \/ \E a, b \in Operands : U32Sub(a, b)
  \/ \E a, b \in Operands : U32Mul(a, b)
  \/ \E a, b \in Operands : U32Div(a, b)
  \/ \E a, b \in Operands : U32Mod(a, b)

U32Spec == U32Init /\ [][U32Next]_vars

(***************************************************************************)
(* The random numbers: U32.setSeed with a seed of Seeds, U32.getRandom and *)
(* F64.getRandom, at most MaxDraws numbers drawn.                          *)
(***************************************************************************)
RandomInit ==
  /\ ParserIdle
  /\ TokenizerIdle
  /\ NumbersIdle
  /\ LogIdle
  /\ FsIdle

SetSeed(newSeed) ==
  /\ seed' = U32_setSeed(newSeed)
  /\ number' = [fn |-> "setSeed", a |-> newSeed]
  /\ UNCHANGED <<parserVars, tokenizer, draws, logVars, fsVars>>

U32GetRandom ==
  /\ draws < MaxDraws
  /\ draws' = draws + 1
  /\ \E r \in {U32_getRandom(seed)} :
        /\ seed' = r.seed
        /\ number' = [fn |-> "U32.getRandom", value |-> r.value]
  /\ UNCHANGED <<parserVars, tokenizer, logVars, fsVars>>

F64GetRandom ==
  /\ draws < MaxDraws
  /\ draws' = draws + 1
  /\ \E r \in {F64_getRandom(seed)} :
        /\ seed' = r.seed
        /\ number' = [fn |-> "F64.getRandom", value |-> r.value]
  /\ UNCHANGED <<parserVars, tokenizer, logVars, fsVars>>

RandomNext ==
  \/ \E newSeed \in Seeds : SetSeed(newSeed)
  \/ U32GetRandom
  \/ F64GetRandom

RandomSpec == RandomInit /\ [][RandomNext]_vars

(***************************************************************************)
(* Log on its own: the module is loaded (its group 'default' created),     *)
(* then groups are created, removed and written to.  remove is given IDs   *)
(* that create returned and that were not removed since.                   *)
(***************************************************************************)
LogInit ==
  /\ ParserIdle
  /\ TokenizerIdle
  /\ NumbersIdle
  /\ LogIdle
  /\ FsIdle

GroupCreate(name) ==
  /\ logCalls.creates < MaxCreates
  /\ \E c \in {Group_create(log, name)} :
        /\ log' = c.log
        /\ logCalls' = [logCalls EXCEPT !.creates = @ + 1,
                                        !.live = @ \cup {c.GroupID},
                                        !.returned = c.GroupID]
  /\ UNCHANGED <<parserVars, tokenizer, numberVars, fsVars>>

GroupRemove(GroupID) ==
  /\ GroupID \in logCalls.live
  /\ log' = Group_remove(log, GroupID)
  /\ logCalls' = [logCalls EXCEPT !.live = @ \ {GroupID}]
  /\ UNCHANGED <<parserVars, tokenizer, numberVars, fsVars>>

LogPush(message, GroupID) ==
  /\ logCalls.pushes < MaxPushes
  /\ GroupID \in logCalls.live
  /\ log' = Log_push(log, message, INFO, GroupID)
  /\ logCalls' = [logCalls EXCEPT !.pushes = @ + 1]
  /\ UNCHANGED <<parserVars, tokenizer, numberVars, fsVars>>

LogNext ==
  \/ \E name \in {"dm-utils:CmdLing", "app"} : GroupCreate(name)
  \/ \E GroupID \in 0..MaxCreates : GroupRemove(GroupID)
  \/ \E GroupID \in 0..MaxCreates : LogPush("m", GroupID)

LogSpec == LogInit /\ [][LogNext]_vars

(***************************************************************************)
(* FileSystem_Memory on its own: a new file system, then at most MaxOps    *)
(* calls of createDir, writeFile, remove and copy, each awaited before the *)
(* next.  A copy of a directory runs one step per entry of the directory   *)
(* it iterates; it does not go deeper than MaxDepth path parts.            *)
(***************************************************************************)
FsInit ==
  /\ ParserIdle
  /\ TokenizerIdle
  /\ NumbersIdle
  /\ LogIdle
  /\ FsIdle

IsPrefix(p, q) == Len(p) <= Len(q) /\ SubSeq(q, 1, Len(p)) = p

\* the files written that a call on path does not create, write, remove or
\* copy onto (neither onto them nor onto a directory above them)
Untouched(written, path) ==
  {w \in written : ~IsPrefix(Parts(path), Parts(w.path))}

CreateDir(dirPath) ==
  /\ copier.phase = "idle"
  /\ fsCalls.ops < MaxOps
  /\ nodes' = createDir(nodes, dirPath)
  /\ fsCalls' = [ops |-> fsCalls.ops + 1,
                 last |-> [fn |-> "createDir", path |-> dirPath],
                 written |-> Untouched(fsCalls.written, dirPath)]
  /\ UNCHANGED <<parserVars, tokenizer, numberVars, logVars, copier>>

WriteFile(filePath, data) ==
  /\ copier.phase = "idle"
  /\ fsCalls.ops < MaxOps
  /\ \E w \in {writeFile(nodes, filePath, data)} :
        /\ nodes' = w.nodes
        /\ fsCalls' = [ops |-> fsCalls.ops + 1,
                       last |-> [fn |-> "writeFile", path |-> filePath,
                                 value |-> w.value],
                       written |-> IF w.value
                                   THEN Untouched(fsCalls.written, filePath)
                                          \cup {[path |-> filePath, data |-> data]}
                                   ELSE fsCalls.written]
  /\ UNCHANGED <<parserVars, tokenizer, numberVars, logVars, copier>>

Remove(path, recursive) ==
  /\ copier.phase = "idle"
  /\ fsCalls.ops < MaxOps
  /\ \E r \in {remove(nodes, path, recursive)} :
        /\ nodes' = r.nodes
        /\ fsCalls' = [ops |-> fsCalls.ops + 1,
                       last |-> [fn |-> "remove", path |-> path, value |-> r.value],
                       written |-> Untouched(fsCalls.written, path)]
  /\ UNCHANGED <<parserVars, tokenizer, numberVars, logVars, copier>>

RECURSIVE DirsUnder(_, _)
\* the directories of the tree under a node, the node included
DirsUnder(h, node) ==
  IF h[node].type # "directory" THEN {}
  ELSE {node} \cup UNION {DirsUnder(h, h[node].children[n].id) :
                            n \in 1..Len(h[node].children)}

\* lines 184-198 for the source node found (0: not found)
CopySource(h, srcNode, destPath) ==
  IF srcNode = 0
  THEN [nodes |-> h, copier |-> CopierIdle, done |-> TRUE, value |-> FALSE]
  ELSE IF h[srcNode].type = "file"
  THEN [nodes |-> copyFileNode(h, srcNode, destPath), copier |-> CopierIdle,
        done |-> TRUE, value |-> TRUE]
  ELSE [nodes |-> createDir(h, destPath),
        copier |-> [phase |-> "copying", stack |-> <<Frame(srcNode, destPath)>>,
                    visits |-> 1, srcDirs |-> Cardinality(DirsUnder(h, srcNode))],
        done |-> FALSE, value |-> TRUE]

CopyFrom(h, src, dest, srcNode) ==
  CopySource(h, srcNode, IF srcNode = 0 THEN <<>> ELSE join(dest, h[srcNode].name))

\* copy(src, dest) up to its first call of copyDirectoryRecursive
\* (lines 176-196 and 230), or to its return
CopyStart(src, dest) ==
  /\ copier.phase = "idle"
  /\ fsCalls.ops < MaxOps
  /\ \E c \in {CopyFrom(createDir(nodes, dest), src, dest,
                         getNode(createDir(nodes, dest), src))} :
        /\ nodes' = c.nodes
        /\ copier' = c.copier
        /\ fsCalls' = [ops |-> fsCalls.ops + 1,
                       last |-> IF c.done
                                THEN [fn |-> "copy", path |-> src, dest |-> dest,
                                      value |-> c.value]
                                ELSE [fn |-> "copy", path |-> src, dest |-> dest],
                       written |-> Untouched(fsCalls.written, dest)]
  /\ UNCHANGED <<parserVars, tokenizer, numberVars, logVars>>

\* the top of the stack
Top == copier.stack[Len(copier.stack)]

\* the entry the for loop of the top call takes next
Entry == nodes[Top.node].children[Top.k + 1]

\* lines 232-236: the next entry is a file
CopyFile ==
  /\ copier.phase = "copying"
  /\ Top.k < Len(nodes[Top.node].children)
  /\ nodes[Entry.id].type = "file"
  /\ nodes' = copyFileNode(nodes, Entry.id, join(Top.destPath, Entry.name))
  /\ copier' = [copier EXCEPT !.stack[Len(copier.stack)].k = @ + 1]
  /\ UNCHANGED <<parserVars, tokenizer, numberVars, logVars, fsCalls>>

\* lines 237-238 and 230: the next entry is a directory
CopyDirectory ==
  /\ copier.phase = "copying"
  /\ Top.k < Len(nodes[Top.node].children)
  /\ nodes[Entry.id].type = "directory"
  /\ Len(Parts(join(Top.destPath, Entry.name))) <= MaxDepth
  /\ nodes' = createDir(nodes, join(Top.destPath, Entry.name))
  /\ copier' = [copier EXCEPT
                  !.stack = Append([@ EXCEPT ![Len(@)].k = @ + 1],
                                   Frame(Entry.id, join(Top.destPath, Entry.name))),
                  !.visits = @ + 1]
  /\ UNCHANGED <<parserVars, tokenizer, numberVars, logVars, fsCalls>>

\* lines 240-241: the for loop of the top call is over; lines 197-201 when
\* it was the first call
CopyReturn ==
  /\ copier.phase = "copying"
  /\ Top.k >= Len(nodes[Top.node].children)
  /\ IF Len(copier.stack) = 1
     THEN /\ copier' = CopierIdle
          /\ fsCalls' = [fsCalls EXCEPT !.last.value = TRUE]
     ELSE /\ copier' = [copier EXCEPT !.stack = SubSeq(@, 1, Len(@) - 1)]
          /\ UNCHANGED fsCalls
  /\ UNCHANGED <<parserVars, tokenizer, numberVars, logVars, nodes>>

FsNext ==
  \/ \E dirPath \in FsPaths : CreateDir(dirPath)
  \/ \E filePath \in FsPaths, data \in FsData : WriteFile(filePath, data)
  \/ \E path \in FsPaths, recursive \in BOOLEAN : Remove(path, recursive)
  \/ \E src \in FsPaths, dest \in FsPaths \cup {<<"/">>} : CopyStart(src, dest)
  \/ CopyFile
  \/ CopyDirectory
  \/ CopyReturn

FsSpec == FsInit /\ [][FsNext]_vars

(***************************************************************************)
(* Vocabulary of the properties.                                           *)
(***************************************************************************)
\* the caller's descriptor that the trigger is compiled from: the last one
\* that lists it
DescriptorOf(trigger) ==
  Callers[caller].options[
    CHOOSE k \in 1..Len(Callers[caller].options) :
      /\ Contains(OwnProp(Callers[caller].options[k], K_triggers).elems, Str(trigger))
      /\ \A j \in (k + 1)..Len(Callers[caller].options) :
           ~Contains(OwnProp(Callers[caller].options[j], K_triggers).elems, Str(trigger))]

\* the type names of a descriptor in the order the caller wrote them
DeclaredTypes(descriptor) ==
  IF OwnProp(descriptor, K_type).t = "array"
  THEN [j \in 1..Len(OwnProp(descriptor, K_type).elems) |->
          OwnProp(descriptor, K_type).elems[j].ty]
  ELSE <<OwnProp(descriptor, K_type).ty>>

\* the declared types in the order none < float < integer < boolean < json < string
FixedOrder(declared) == SelectSeq(VALUE_TYPE_ORDER, LAMBDA n : Contains(declared, n))

\* t is one of the triggers of the compiled option set
IsTrigger(t) == options.t = "object" /\ HasOwn(options, t)

\* s is a finite numeric literal without a '.'
WholeNumeral(s) == isNumericString(s) /\ IndexOf(s, ".") = -1

\* what the caller of parse can observe of an outcome
Observed(h, o) ==
  [kind |-> o.kind, value |-> IF o.kind = "result" THEN Deref(h, o.value) ELSE o]

RECURSIVE ValuesFor(_, _)
\* the values of the first k iterations that went to the target, a bare
\* flag counting as true
ValuesFor(target, k) ==
  IF k = 0 THEN <<>>
  ELSE ValuesFor(target, k - 1) \o
       (IF events[k].stage = "gathered" /\ events[k].target = target
        THEN (IF events[k].wrote = "flag" THEN <<Bool(TRUE)>> ELSE events[k].parsed)
        ELSE <<>>)

\* one option only writes the target
Exclusive(target) ==
  \A j, k \in 1..Len(options.vals) :
    (getTarget(heap, options.vals[j]).target = target
       /\ getTarget(heap, options.vals[k]).target = target)
    => options.vals[j] = options.vals[k]

(***************************************************************************)
(* C1.  Type precedence law: a raw value of an option without a map is     *)
(* interpreted by the first type that accepts it in the order              *)
(* none < float < integer < boolean < json < string, whatever the order    *)
(* the caller declared the types in; for an option declared                *)
(* [string, integer] or [integer, string], a finite numeric literal        *)
(* without a '.' is stored at the target as an integer, never as the raw   *)
(* string.                                                                 *)
(***************************************************************************)
C1_TypePrecedence ==
  \A k \in 1..Len(events) :
    (events[k].wrote = "values" /\ ~HasOwn(DescriptorOf(events[k].trigger), K_map)) =>
      /\ \A j \in 1..Len(events[k].values) :
           events[k].parsed[j] =
             parseValue(events[k].values[j],
                        FixedOrder(DeclaredTypes(DescriptorOf(events[k].trigger)))).value
      /\ ( /\ k = Len(events)
           /\ outcome.kind # "throw"
           /\ ~events[k].isArray
           /\ DeclaredTypes(DescriptorOf(events[k].trigger))
                \in {<<"string", "integer">>, <<"integer", "string">>}
           /\ WholeNumeral(events[k].values[1]) )
         => /\ get(heap, result, events[k].target).t = "number"
            /\ get(heap, result, events[k].target).sc = 0

\* a numeral was given to the option declared [string, integer] and the
\* integer 42 is at its target
C1_Witness ==
  /\ pc = "done"
  /\ outcome.kind = "result"
  /\ \E k \in 1..Len(events) :
       /\ events[k].wrote = "values"
       /\ DeclaredTypes(DescriptorOf(events[k].trigger)) = <<"string", "integer">>
       /\ events[k].values = << <<"4", "2">> >>
       /\ get(heap, outcome.value, events[k].target) = Num(42, 0)

(***************************************************************************)
(* C2.  Whitelist violation: when a raw value handed to an option with a   *)
(* map (the option has no 'none' type, and a non-array option got exactly  *)
(* one value) is not a key of the map, parse returns the invalid-value     *)
(* error and no Result.                                                    *)
(***************************************************************************)
C2_WhitelistViolation ==
  \A k \in 1..Len(events) :
    ( /\ events[k].stage = "gathered"
      /\ HasOwn(DescriptorOf(events[k].trigger), K_map)
      /\ ~Contains(events[k].types, "none")
      /\ (events[k].isArray \/ Len(events[k].values) = 1)
      /\ \E j \in 1..Len(events[k].values) :
           ~HasOwn(OwnProp(DescriptorOf(events[k].trigger), K_map), events[k].values[j]) )
    => /\ k = Len(events)
       /\ outcome.kind = "error"
       /\ outcome.name = "invalidValueFromMap"

(***************************************************************************)
(* C3.  Uniqueness invariant: an occurrence of a non-array option whose    *)
(* target was used earlier in the same call ends the call with the         *)
(* option-cannot-be-repeated error for that target, so a successful parse  *)
(* has at most one occurrence of non-array options per target.             *)
(***************************************************************************)
C3_Uniqueness ==
  /\ \A k \in 1..Len(events) :
       ( /\ events[k].stage \in {"repeated", "gathered"}
         /\ ~events[k].isArray
         /\ \E j \in 1..(k - 1) :
              events[j].stage = "gathered" /\ events[j].target = events[k].target )
       => /\ k = Len(events)
          /\ outcome = ErrorMessage("optionCannotBeRepeated", events[k].target, <<>>, <<>>)
  /\ outcome.kind = "result" =>
       \A j, k \in 1..Len(events) :
         ( /\ j # k
           /\ events[j].stage = "gathered" /\ ~events[j].isArray
           /\ events[k].stage = "gathered" /\ ~events[k].isArray )
         => events[j].target # events[k].target

\* a target used through one trigger is used again through another trigger
\* of a non-array option, and the call ended with the error
C3_Witness ==
  /\ pc = "done"
  /\ outcome.kind = "error"
  /\ outcome.name = "optionCannotBeRepeated"
  /\ \E j, k \in 1..Len(events) :
       /\ j < k
       /\ events[j].trigger # events[k].trigger
       /\ events[j].target = events[k].target
       /\ ~events[k].isArray

(***************************************************************************)
(* C4.  Defaults: after a successful parse, every compiled option that     *)
(* declares a default and whose target no token of the input wrote has     *)
(* its default at its target, also when several options share the target.  *)
(***************************************************************************)
C4_Defaults ==
  (pc = "done" /\ outcome.kind = "result") =>
    \A j \in 1..Len(options.vals) :
      ( /\ GetProp(heap, options.vals[j], K_default).t # "undefined"
        /\ getTarget(heap, options.vals[j]).target \notin seenTargets )
      => get(heap, outcome.value, getTarget(heap, options.vals[j]).target)
           = GetProp(heap, options.vals[j], K_default)

(***************************************************************************)
(* C5.  CompiledOptions is read-only for the parser: every object          *)
(* reachable from the compiled mapping is as the compiler left it.         *)
(***************************************************************************)
C5_CompiledOptionsReadOnly ==
  pc # "new" => Deref(heap, options) = Deref(compiledHeap, options)

(***************************************************************************)
(* C6.  Parse is total: a call returns a Result or an error message, it    *)
(* never ends with an exception.                                           *)
(***************************************************************************)
C6_ParseIsTotal == outcome.kind # "throw"

(***************************************************************************)
(* C7.  Determinism under reuse: whatever calls were made before, a call   *)
(* returns what the first call on the freshly compiled options returns     *)
(* for the same tokens.                                                    *)
(***************************************************************************)
C7_DeterminismUnderReuse ==
  pc = "done" =>
    \E fresh \in {parse(compiledHeap, options, argv)} :
      Observed(heap, outcome) = Observed(fresh.h, fresh.outcome)

(***************************************************************************)
(* C8.  Array accumulation: after a successful parse, the target of an     *)
(* array-typed option without 'none' (the only option of its target)       *)
(* holds the sequence of the coerced values of all its occurrences in      *)
(* encounter order.                                                        *)
(***************************************************************************)
C8_ArrayAccumulation ==
  (pc = "done" /\ outcome.kind = "result") =>
    \A k \in 1..Len(events) :
      ( /\ events[k].stage = "gathered"
        /\ events[k].isArray
        /\ ~Contains(events[k].types, "none")
        /\ Exclusive(events[k].target) )
      => /\ Node(heap, get(heap, outcome.value, events[k].target)).t = "array"
         /\ Node(heap, get(heap, outcome.value, events[k].target)).elems
              = ValuesFor(events[k].target, Len(events))

(***************************************************************************)
(* C9.  Unknown trigger: when the trigger candidate of the token at the    *)
(* cursor is not a trigger of the compiled option set, the call ends at    *)
(* once with the unknown-trigger error naming the candidate.               *)
(***************************************************************************)
C9_UnknownTrigger ==
  \A k \in 1..Len(events) :
    ~IsTrigger(events[k].trigger) =>
      /\ k = Len(events)
      /\ outcome = ErrorMessage("unknownTrigger", events[k].trigger, <<>>, <<>>)

(***************************************************************************)
(* C10.  Missing value: an occurrence of an option with neither 'none'     *)
(* nor 'boolean' in its types that gathers no raw value (it is the last    *)
(* token, or the next token is a known trigger, or its inline value is     *)
(* empty) ends the call with the missing-value error naming the trigger.   *)
(***************************************************************************)
C10_MissingValue ==
  \A k \in 1..Len(events) :
    ( /\ events[k].stage = "gathered"
      /\ ~Contains(events[k].types, "none")
      /\ ~Contains(events[k].types, "boolean")
      /\ \/ events[k].values = <<>>
         \/ events[k].inline /\ argv[events[k].at + 1] = events[k].trigger \o <<"=">>
         \/ ~events[k].inline /\ events[k].at + 1 = Len(argv)
         \/ /\ ~events[k].inline
            /\ events[k].at + 1 < Len(argv)
            /\ IsTrigger(TriggerOf(argv[events[k].at + 2])) )
    => /\ k = Len(events)
       /\ outcome = ErrorMessage("missingValue", events[k].trigger, <<>>, <<>>)

\* an option that needs a value is followed directly by a known trigger
C10_Witness ==
  /\ pc = "done"
  /\ outcome.kind = "error"
  /\ outcome.name = "missingValue"
  /\ i < Len(argv)
  /\ IsTrigger(TriggerOf(argv[i + 1]))
  /\ ~events[Len(events)].inline

(***************************************************************************)
(* C11.  None-type flag: an occurrence of an option that declares 'none'   *)
(* (one that is not refused as a repetition) writes true at the target     *)
(* and moves the cursor by exactly one token; no value is coerced or       *)
(* looked up in a map and no error is returned for it, whatever inline     *)
(* value, other types, map or isArray flag the option has.                 *)
(***************************************************************************)
C11_NoneFlag ==
  \A k \in 1..Len(events) :
    ( /\ events[k].stage = "gathered"
      /\ Contains(DeclaredTypes(DescriptorOf(events[k].trigger)), "none") )
    => /\ events[k].wrote = "flag"
       /\ events[k].parsed = <<>>
       /\ k < Len(events) => events[k + 1].at = events[k].at + 1
       /\ k = Len(events) =>
            /\ i = events[k].at + 1
            /\ outcome.kind \in {"none", "result"}
            /\ get(heap, result, events[k].target) = Bool(TRUE)

\* a flag that also declares string, a map and isArray was given with an
\* inline value that is not in the map, and the call returned a Result
C11_Witness ==
  /\ pc = "done"
  /\ outcome.kind = "result"
  /\ \E k \in 1..Len(events) :
       /\ events[k].wrote = "flag"
       /\ events[k].inline
       /\ events[k].values # <<>>
       /\ events[k].isArray
       /\ HasOwn(DescriptorOf(events[k].trigger), K_map)
       /\ Len(events[k].types) > 1
       /\ Contains(events[k].types, "none")

InlineValue(e) ==
  Substring(argv[e.at + 1], IndexOf(argv[e.at + 1], "=") + 1, Len(argv[e.at + 1]))

(***************************************************************************)
(* C13.  Too many values: an occurrence of a non-array option without      *)
(* 'none' that gathers more than one raw value ends the call with the      *)
(* too-many-values error; it gathers more than one exactly when its        *)
(* inline value contains a comma, whatever the declared types, and the     *)
(* error is returned for no other occurrence.                              *)
(***************************************************************************)
C13_TooManyValues ==
  /\ \A k \in 1..Len(events) :
       ( /\ events[k].stage = "gathered"
         /\ ~events[k].isArray
         /\ ~Contains(events[k].types, "none") )
       => /\ Len(events[k].values) > 1
             <=> (events[k].inline /\ IndexOf(InlineValue(events[k]), ",") # -1)
          /\ Len(events[k].values) > 1 =>
               /\ k = Len(events)
               /\ outcome = ErrorMessage("tooManyValues", events[k].trigger, <<>>, <<>>)
  /\ (outcome.kind = "error" /\ outcome.name = "tooManyValues") =>
       /\ events # <<>>
       /\ events[Len(events)].stage = "gathered"
       /\ ~events[Len(events)].isArray
       /\ ~Contains(events[Len(events)].types, "none")
       /\ Len(events[Len(events)].values) > 1

\* a JSON array was given inline to a non-array option that declares json
C13_Witness ==
  /\ pc = "done"
  /\ outcome.kind = "error"
  /\ outcome.name = "tooManyValues"
  /\ Contains(events[Len(events)].types, "json")
  /\ events[Len(events)].values = << <<"[", "1">>, <<"2", "]">> >>

RECURSIVE ValueRun(_, _, _)
\* the tokens from position j + 1 on whose trigger candidate is not a
\* trigger of the option set, one token at most for a non-array option
ValueRun(j, isArray, acc) ==
  IF j >= Len(argv) \/ IsTrigger(TriggerOf(argv[j + 1])) THEN acc
  ELSE IF ~isArray THEN Append(acc, argv[j + 1])
  ELSE ValueRun(j + 1, isArray, Append(acc, argv[j + 1]))

(***************************************************************************)
(* C14.  Forward scan and token partition: for an occurrence without       *)
(* inline value of an option with neither 'none' nor 'boolean', the raw    *)
(* values are the maximal run of following tokens whose trigger candidate  *)
(* is not a known trigger (one token for a non-array option), and the      *)
(* cursor resumes at the first token after them.                           *)
(***************************************************************************)
C14_ForwardScan ==
  \A k \in 1..Len(events) :
    ( /\ events[k].stage = "gathered"
      /\ ~events[k].inline
      /\ ~Contains(events[k].types, "none")
      /\ ~Contains(events[k].types, "boolean") )
    => /\ events[k].values = ValueRun(events[k].at + 1, events[k].isArray, <<>>)
       /\ k < Len(events) => events[k + 1].at = events[k].at + 1 + Len(events[k].values)
       /\ k = Len(events) => i = events[k].at + 1 + Len(events[k].values)

RECURSIVE ValueVerdict(_, _, _)
\* the error of the first raw value, from the n-th on, that the descriptor
\* d does not take, or NoOutcome
ValueVerdict(e, d, n) ==
  IF n > Len(e.values) THEN NoOutcome
  ELSE IF HasOwn(d, K_map)
  THEN IF HasOwn(OwnProp(d, K_map), e.values[n]) THEN ValueVerdict(e, d, n + 1)
       ELSE ErrorMessage("invalidValueFromMap", e.trigger, e.values[n],
                         OwnProp(d, K_map).keys)
  ELSE IF parseValue(e.values[n], FixedOrder(DeclaredTypes(d))).ok
  THEN ValueVerdict(e, d, n + 1)
  ELSE ErrorMessage("parsingFailed", e.trigger, e.values[n],
                    [j \in 1..Len(FixedOrder(DeclaredTypes(d))) |->
                       TypeChars(FixedOrder(DeclaredTypes(d))[j])])

\* the error that the checks, in their order, give for the k-th iteration
\* and the raw values it gathered, or NoOutcome
Verdict(k) ==
  IF ~IsTrigger(events[k].trigger)
    THEN ErrorMessage("unknownTrigger", events[k].trigger, <<>>, <<>>)
  ELSE IF /\ ~events[k].isArray
          /\ \E j \in 1..(k - 1) : events[j].target = events[k].target
    THEN ErrorMessage("optionCannotBeRepeated", events[k].target, <<>>, <<>>)
  ELSE IF Contains(events[k].types, "none") THEN NoOutcome
  ELSE IF events[k].values = <<>>
    THEN IF Contains(events[k].types, "boolean") THEN NoOutcome
         ELSE ErrorMessage("missingValue", events[k].trigger, <<>>, <<>>)
  ELSE IF ~events[k].isArray /\ Len(events[k].values) > 1
    THEN ErrorMessage("tooManyValues", events[k].trigger, <<>>, <<>>)
  ELSE ValueVerdict(events[k], DescriptorOf(events[k].trigger), 1)

(***************************************************************************)
(* C15.  First failure wins: the call returns the error of the earliest    *)
(* failing occurrence and nothing else, the checks of one occurrence       *)
(* being applied in the order unknown trigger, option cannot be repeated,  *)
(* missing value, too many values, then per raw value from left to right   *)
(* invalid value from map or parsing failed.                               *)
(***************************************************************************)
C15_FirstFailureWins ==
  /\ \A k \in 1..Len(events) :
       Verdict(k) # NoOutcome => (k = Len(events) /\ outcome = Verdict(k))
  /\ outcome.kind = "error" => (events # <<>> /\ outcome = Verdict(Len(events)))

RECURSIVE Refs(_, _)
\* the objects of the heap that can be reached from a value
Refs(h, v) ==
  IF Node(h, v).t \in {"object", "array", "function"}
  THEN (IF v.t = "ref" THEN {v.id} ELSE {})
       \cup UNION {Refs(h, Node(h, v).vals[n]) : n \in 1..Len(Node(h, v).vals)}
       \cup (IF Node(h, v).t = "array"
             THEN UNION {Refs(h, Node(h, v).elems[n]) : n \in 1..Len(Node(h, v).elems)}
             ELSE {})
  ELSE {}

(***************************************************************************)
(* C16.  Compilation leaves the caller's descriptors unchanged: once       *)
(* CmdLine.Options.parse has returned, every descriptor of the caller has  *)
(* the fields it was written with, its type as declared, and no object     *)
(* reachable from the compiled mapping is reachable from a descriptor.     *)
(***************************************************************************)
C16_DescriptorsUnchanged ==
  pc # "new" =>
    /\ \A k \in 1..Len(descriptors) :
         Deref(heap, descriptors[k]) = Callers[caller].options[k]
    /\ Refs(heap, options) \cap Refs(heap, ArrV(descriptors)) = {}

\* compilation has reordered the types of an option whose descriptor
\* declares them in another order
C16_Witness ==
  /\ pc = "idle"
  /\ \E k \in 1..Len(options.keys) :
       TypeNames(heap, options.vals[k]) # DeclaredTypes(DescriptorOf(options.keys[k]))

RECURSIVE ListedTriggers(_)
\* the triggers of the first k descriptors of the caller, in list order
ListedTriggers(k) ==
  IF k = 0 THEN <<>>
  ELSE ListedTriggers(k - 1) \o
       [j \in 1..Len(OwnProp(Callers[caller].options[k], K_triggers).elems) |->
          OwnProp(Callers[caller].options[k], K_triggers).elems[j].s]

RECURSIVE Overwrites(_, _)
\* those of the first n insertions whose trigger was inserted before
Overwrites(list, n) ==
  IF n = 0 THEN <<>>
  ELSE Overwrites(list, n - 1) \o
       (IF \E m \in 1..(n - 1) : list[m] = list[n] THEN <<list[n]>> ELSE <<>>)

\* the compiled copy of a descriptor: its fields, the type a sorted array
CompiledCopy(d) ==
  ObjV(d.keys,
       [n \in 1..Len(d.keys) |->
          IF d.keys[n] = K_type
          THEN ArrV([j \in 1..Len(FixedOrder(DeclaredTypes(d))) |->
                       TyV(FixedOrder(DeclaredTypes(d))[j])])
          ELSE d.vals[n]])

(***************************************************************************)
(* C17.  Duplicate triggers at compile time: compilation returns a         *)
(* mapping whose triggers are exactly the listed ones, every trigger maps  *)
(* to the compiled copy of the last descriptor that lists it, and one      *)
(* warning is logged per insertion that overwrites an earlier one.         *)
(***************************************************************************)
C17_DuplicateTriggers ==
  pc # "new" =>
    /\ options.t = "object"
    /\ {options.keys[n] : n \in 1..Len(options.keys)}
         = {ListedTriggers(Len(Callers[caller].options))[n] :
              n \in 1..Len(ListedTriggers(Len(Callers[caller].options)))}
    /\ \A n \in 1..Len(options.keys) :
         Deref(compiledHeap, options.vals[n]) = CompiledCopy(DescriptorOf(options.keys[n]))
    /\ warnings = Overwrites(ListedTriggers(Len(Callers[caller].options)),
                             Len(ListedTriggers(Len(Callers[caller].options))))

\* the first of the longest triggers of a descriptor
FirstLongest(d) ==
  OwnProp(d, K_triggers).elems[
    CHOOSE n \in 1..Len(OwnProp(d, K_triggers).elems) :
      /\ \A m \in 1..Len(OwnProp(d, K_triggers).elems) :
           Len(OwnProp(d, K_triggers).elems[m].s) <= Len(OwnProp(d, K_triggers).elems[n].s)
      /\ \A m \in 1..(n - 1) :
           Len(OwnProp(d, K_triggers).elems[m].s) < Len(OwnProp(d, K_triggers).elems[n].s)].s

\* s without its leading '-' characters
Undashed(s) ==
  SubSeq(s,
         1 + (CHOOSE n \in 0..Len(s) :
                /\ \A m \in 1..n : s[m] = "-"
                /\ n = Len(s) \/ s[n + 1] # "-"),
         Len(s))

\* the target of a descriptor: the explicit one, else the one derived from
\* its triggers
DeclaredTarget(d) ==
  IF HasOwn(d, K_target) THEN OwnProp(d, K_target).s ELSE Undashed(FirstLongest(d))

RECURSIVE EscapedAt(_, _)
EscapedAt(line, p) ==
  /\ p > 1
  /\ line[p - 1] = "\\"
  /\ ~EscapedAt(line, p - 1)

\* an escaping backslash, an unescaped double quote
EscapingAt(line, p) == line[p] = "\\" /\ ~EscapedAt(line, p)
QuoteAt(line, p) == line[p] = "\"" /\ ~EscapedAt(line, p)

\* p lies in an open double-quote region: an odd number of unescaped quotes
\* stand before it
InQuotesAt(line, p) ==
  Cardinality({q \in 1..(p - 1) : QuoteAt(line, q)}) % 2 = 1

\* a token boundary: a space neither escaped nor quoted
BoundaryAt(line, p) ==
  /\ line[p] = " "
  /\ ~EscapedAt(line, p)
  /\ ~InQuotesAt(line, p)

\* the character at p is part of its token
KeptAt(line, p) ==
  \/ EscapedAt(line, p)
  \/ (~EscapingAt(line, p) /\ ~QuoteAt(line, p) /\ ~BoundaryAt(line, p))

\* the boundaries, with the two ends of the line
Boundaries(line) ==
  {0, Len(line) + 1} \cup {p \in 1..Len(line) : BoundaryAt(line, p)}

\* the first boundary after a
BoundaryAfter(line, a) ==
  CHOOSE b \in Boundaries(line) :
    b > a /\ \A c \in Boundaries(line) : c > a => b <= c

\* the kept characters strictly between a and b, in input order
RECURSIVE KeptBetween(_, _, _)
KeptBetween(line, a, b) ==
  IF a + 1 >= b THEN <<>>
  ELSE (IF KeptAt(line, a + 1) THEN <<line[a + 1]>> ELSE <<>>)
         \o KeptBetween(line, a + 1, b)

\* the non-empty runs of kept characters between consecutive boundaries
RECURSIVE TokensAfter(_, _)
TokensAfter(line, a) ==
  IF a > Len(line) THEN <<>>
  ELSE (IF KeptBetween(line, a, BoundaryAfter(line, a)) = <<>> THEN <<>>
        ELSE <<KeptBetween(line, a, BoundaryAfter(line, a))>>)
         \o TokensAfter(line, BoundaryAfter(line, a))

\* C19: Tokenizer splitting.  The tokens stringToArgv returns are cut at
\* exactly the spaces that are neither escaped by a backslash nor inside an
\* open double-quote region; each token is the characters between two
\* consecutive boundaries, in input order, without the unescaped double
\* quotes and the escaping backslashes and with every escaped character kept.
C19_TokenizerSplitting ==
  tokenizer.phase = "returned"
    => tokenizer.args = TokensAfter(tokenizer.line, 0)

\* a returned line with a quoted space that stays in its token and a boundary
\* that cuts two tokens
C19_Witness ==
  /\ tokenizer.phase = "returned"
  /\ Len(tokenizer.args) = 2
  /\ \E p \in 1..Len(tokenizer.line) :
        /\ tokenizer.line[p] = " "
        /\ InQuotesAt(tokenizer.line, p)
        /\ ~EscapedAt(tokenizer.line, p)
        /\ \E k \in 1..2 : \E c \in 1..Len(tokenizer.args[k]) :
              tokenizer.args[k][c] = " "
  /\ \E p \in 1..Len(tokenizer.line) : BoundaryAt(tokenizer.line, p)

\* C20: Tokenizer never emits an empty token.  Whatever the line (consecutive,
\* leading or trailing spaces, an empty quoted string, an unterminated quote,
\* a trailing backslash), every token pushed onto args has at least one
\* character.
C20_NoEmptyToken ==
  \A k \in 1..Len(tokenizer.args) : Len(tokenizer.args[k]) >= 1

\* a returned line where an empty quoted string stands alone between two
\* boundaries, next to an argument that was pushed
C20_Witness ==
  /\ tokenizer.phase = "returned"
  /\ Len(tokenizer.args) >= 1
  /\ \E p \in 1..(Len(tokenizer.line) - 1) :
        /\ QuoteAt(tokenizer.line, p)
        /\ ~InQuotesAt(tokenizer.line, p)
        /\ QuoteAt(tokenizer.line, p + 1)
        /\ p - 1 \in Boundaries(tokenizer.line)
        /\ p + 2 \in Boundaries(tokenizer.line)

(***************************************************************************)
(* C21.  Termination: the consumption loop of CmdLine.parse terminates.    *)
(* Every iteration that gets past its checks moves the cursor forward by   *)
(* one plus the number of values its forward scan gathered, never beyond   *)
(* the number of tokens; an iteration that does not move it returns; so    *)
(* the loop has run at most as many iterations as the cursor counts, which *)
(* is at most the number of tokens.                                        *)
(***************************************************************************)
\* the values the iteration took from the tokens after its trigger
Scanned(e) == IF e.inline THEN 0 ELSE Len(e.values)

C21_Termination ==
  /\ [][(pc = "loop" /\ Len(events') = Len(events) + 1) =>
          /\ events'[Len(events')].at = i
          /\ IF events'[Len(events')].stage = "gathered"
             THEN /\ i' = i + 1 + Scanned(events'[Len(events')])
                  /\ i' > i
                  /\ i' <= Len(argv)
             ELSE i' = i /\ pc' = "done"]_vars
  /\ [](pc = "loop" => Len(events) <= i /\ i <= Len(argv))

\* an iteration of an array option scanned two values and the cursor stands
\* at the end of the tokens
C21_Witness ==
  /\ pc = "loop"
  /\ Len(events) >= 1
  /\ ~events[Len(events)].inline
  /\ Len(events[Len(events)].values) = 2
  /\ i = Len(argv)
  /\ i = events[Len(events)].at + 3

\* the entry of a map literal under key v as the parser hands it on: the
\* entry, or its value field when the entry is an object with one
MapValue(map, v) ==
  IF OwnProp(map, v).t = "object" /\ HasOwn(OwnProp(map, v), K_value)
  THEN OwnProp(OwnProp(map, v), K_value)
  ELSE OwnProp(map, v)

\* the last n elements of the array a
LastElems(a, n) == SubSeq(a.elems, Len(a.elems) - n + 1, Len(a.elems))

(***************************************************************************)
(* C22.  Whitelist mapping: for an option with a map, a raw value that is  *)
(* a key of the map becomes the map entry itself, or the entry's value     *)
(* field when the entry is an object that has one, with no coercion by     *)
(* the option's types; when every raw value of the occurrence is a key,    *)
(* these values are what the iteration writes at the target.               *)
(***************************************************************************)
C22_WhitelistMapping ==
  \A k \in 1..Len(events) :
    (events[k].stage = "gathered" /\ HasOwn(DescriptorOf(events[k].trigger), K_map)) =>
      /\ \A j \in 1..Len(events[k].parsed) :
           HasOwn(OwnProp(DescriptorOf(events[k].trigger), K_map), events[k].values[j])
           => Deref(heap, events[k].parsed[j])
                = MapValue(OwnProp(DescriptorOf(events[k].trigger), K_map),
                           events[k].values[j])
      /\ ( /\ Len(events[k].values) >= 1
           /\ events[k].isArray \/ Len(events[k].values) = 1
           /\ ~Contains(events[k].types, "none")
           /\ \A j \in 1..Len(events[k].values) :
                HasOwn(OwnProp(DescriptorOf(events[k].trigger), K_map),
                       events[k].values[j]) )
         => /\ events[k].wrote = "values"
            /\ Len(events[k].parsed) = Len(events[k].values)
            /\ (k = Len(events) /\ pc = "loop" /\ outcome.kind = "none")
               => IF events[k].isArray
                  THEN LastElems(Deref(heap, get(heap, result, events[k].target)),
                                 Len(events[k].parsed))
                         = [j \in 1..Len(events[k].parsed) |->
                              Deref(heap, events[k].parsed[j])]
                  ELSE Deref(heap, get(heap, result, events[k].target))
                         = Deref(heap, events[k].parsed[1])

\* 'slow', whose entry is a {value, description} pair, was stored as the
\* pair's value 2
C22_Witness ==
  /\ pc = "loop"
  /\ outcome.kind = "none"
  /\ Len(events) = 1
  /\ events[1].values = << <<"s", "l", "o", "w">> >>
  /\ events[1].parsed = <<Num(2, 0)>>
  /\ get(heap, result, <<"m">>) = Num(2, 0)

\* v is a U32: MIN <= v <= MAX
InRange(v) == ~Less(v, U32_MIN) /\ ~Less(U32_MAX, v)

(***************************************************************************)
(* C23.  U32 arithmetic stays in range: for operands in [0, 4294967295]    *)
(* each of U32.add, U32.sub, U32.mul, U32.div and U32.mod returns a value  *)
(* in [0, 4294967295]; add and mul return MAX when the exact result is     *)
(* above it, sub returns 0 when it is below 0, and a division of a         *)
(* non-zero numerator by zero returns MAX.                                 *)
(***************************************************************************)
C23_U32InRange ==
  number.fn \in {"add", "sub", "mul", "div", "mod"} =>
    /\ InRange(number.value)
    /\ (number.fn = "add" /\ Less(U32_MAX, Plus(number.a, number.b)))
         => number.value = U32_MAX
    /\ (number.fn = "mul" /\ Less(U32_MAX, Times(number.a, number.b)))
         => number.value = U32_MAX
    /\ (number.fn = "sub" /\ Less(number.a, number.b)) => number.value = U32_MIN
    /\ (number.fn = "div" /\ number.b = Zero /\ number.a # Zero)
         => number.value = U32_MAX

(***************************************************************************)
(* C24.  F64.getRandom range: after any sequence of U32.setSeed and        *)
(* random-number calls, the value F64.getRandom returns, the U32.getRandom *)
(* value divided by the constant divisor, is at least 0 and strictly less  *)
(* than 1.                                                                 *)
(***************************************************************************)
C24_RandomInUnitInterval ==
  number.fn = "F64.getRandom" =>
    /\ ~Less(number.value.num, Zero)
    /\ Less(number.value.num, number.value.den)

\* the type accepts the raw value
Accepts(type, value) ==
  CASE type = "float" -> isNumericString(value)
    [] type = "integer" -> isNumericString(value) /\ IndexOf(value, ".") = -1
    [] type = "boolean" ->
         ToLowerCase(value) \in {<<"t", "r", "u", "e">>, <<"1">>, <<"y", "e", "s">>,
                                 <<"f", "a", "l", "s", "e">>, <<"0">>, <<"n", "o">>}
    [] type = "json" ->
         /\ Len(value) >= 1
         /\ <<value[1], value[Len(value)]>> \in {<<"{", "}">>, <<"[", "]">>}
         /\ JSONParse(value).ok
    [] type = "string" -> TRUE
    [] OTHER -> FALSE

\* no type of the list accepts the raw value
Unparsable(types, value) == \A n \in 1..Len(types) : ~Accepts(types[n], value)

\* the iteration handed its raw values to parseValue
Coerced(e) ==
  /\ e.stage = "gathered"
  /\ ~HasOwn(DescriptorOf(e.trigger), K_map)
  /\ ~Contains(e.types, "none")
  /\ Len(e.values) >= 1
  /\ e.isArray \/ Len(e.values) = 1

(***************************************************************************)
(* C25.  Coercion failure: for an option without a map, parse returns the  *)
(* parsing-failed error for a raw value exactly when no type of the        *)
(* option's list accepts it; a list that contains 'string' never produces  *)
(* it, and a value that looks like JSON but does not parse goes on to the  *)
(* later types instead of failing.                                         *)
(***************************************************************************)
C25_CoercionFailure ==
  \A k \in 1..Len(events) :
    Coerced(events[k]) =>
      /\ ( /\ k = Len(events)
           /\ outcome.kind = "error"
           /\ outcome.name = "parsingFailed" )
         <=> \E j \in 1..Len(events[k].values) :
               Unparsable(events[k].types, events[k].values[j])
      /\ (outcome.kind = "error" /\ outcome.name = "parsingFailed" /\ k = Len(events))
         => /\ outcome.a = events[k].trigger
            /\ Unparsable(events[k].types, outcome.b)
            /\ ~Contains(events[k].types, "string")
      /\ \A j \in 1..Len(events[k].parsed) :
           ( /\ Contains(events[k].types, "string")
             /\ Unparsable(SelectSeq(events[k].types, LAMBDA n : n # "string"),
                           events[k].values[j]) )
           => events[k].parsed[j] = Str(events[k].values[j])

\* '[x]' looks like JSON and does not parse: with types json and string it
\* was stored as the string
C25_Witness ==
  /\ pc = "done"
  /\ outcome.kind = "result"
  /\ Len(events) = 1
  /\ events[1].types = <<"json", "string">>
  /\ events[1].values = << <<"[", "x", "]">> >>
  /\ ~JSONParse(events[1].values[1]).ok
  /\ get(heap, outcome.value, events[1].target) = Str(<<"[", "x", "]">>)

\* what the iteration wrote is readable at its target in the result r
Readable(h, r, e) ==
  IF e.wrote = "flag" THEN get(h, r, e.target) = Bool(TRUE)
  ELSE IF ~e.isArray THEN Deref(h, get(h, r, e.target)) = Deref(h, e.parsed[1])
  ELSE /\ Deref(h, get(h, r, e.target)).t = "array"
       /\ \A j \in 1..Len(e.parsed) :
            \E n \in 1..Len(Deref(h, get(h, r, e.target)).elems) :
              Deref(h, get(h, r, e.target)).elems[n] = Deref(h, e.parsed[j])

(***************************************************************************)
(* C26.  Written values survive: in every successful parse, each value     *)
(* written for an option that a token triggered is still readable at that  *)
(* option's target path in the returned result; no later option's write    *)
(* and no default of the final pass replaces or destroys it.               *)
(***************************************************************************)
C26_WrittenValuesSurvive ==
  (pc = "done" /\ outcome.kind = "result") =>
    \A k \in 1..Len(events) :
      events[k].wrote # "nothing" => Readable(heap, outcome.value, events[k])

(***************************************************************************)
(* C27.  Log group IDs are unique: every call to Log.Group.create returns  *)
(* an ID that is not the ID of a live group (created and not removed), so  *)
(* that creating a group leaves the record and the entries of every live   *)
(* group as they were.                                                     *)
(***************************************************************************)
C27_GroupIDsUnique ==
  [][logCalls'.creates = logCalls.creates + 1 =>
       /\ logCalls'.returned \notin logCalls.live
       /\ \A id \in logCalls.live :
            id \in DOMAIN log'.groups /\ log'.groups[id] = log.groups[id]]_vars

\* C28: at every moment, every file that writeFile(p, d) wrote with the value
\* true, and that no later call was made on (a createDir, writeFile, remove
\* or copy at p or at a directory above p), is still there: readFile(p)
\* returns d, exist(p) and isFile(p) are true.
C28_WriteReadRoundTrip ==
  \A w \in fsCalls.written :
    /\ readFile(nodes, w.path) = [threw |-> FALSE, value |-> w.data]
    /\ exist(nodes, w.path)
    /\ isFile(nodes, w.path)

RECURSIVE FilesUnder(_, _, _)
\* the files of the tree under a directory: the parts of their paths and
\* their contents
FilesUnder(h, node, parts) ==
  UNION {IF h[h[node].children[n].id].type = "file"
         THEN {[parts |-> Append(parts, h[node].children[n].name),
                content |-> h[h[node].children[n].id].content]}
         ELSE FilesUnder(h, h[node].children[n].id,
                         Append(parts, h[node].children[n].name)) :
         n \in 1..Len(h[node].children)}

Files(h) == FilesUnder(h, 1, <<>>)

\* C29: a call createDir(q) or writeFile(q, d) leaves every file that is
\* not at q where it was, with its content; so a file at a proper prefix
\* of q is still there afterwards.
C29_FrameCondition ==
  [][(fsCalls'.ops = fsCalls.ops + 1 /\ fsCalls'.last.fn \in {"createDir", "writeFile"}) =>
       \A f \in Files(nodes) :
         f.parts # Parts(fsCalls'.last.path) => f \in Files(nodes')]_vars

\* C30: a copy comes to its end: it calls copyDirectoryRecursive at most once
\* for each directory that was under the source when copy was called, and
\* so never goes on copying what it has itself just made.
C30_CopyTerminates == copier.visits <= copier.srcDirs

=============================================================================
